---- MODULE Spec2Model ----
(***************************************************************************)
(* Model of the message text annotation engine of Signal Desktop:          *)
(* MessageTextRenderer (link extraction, range ordering, range tree        *)
(* building, collapse into display nodes, spoiler grouping), and of the    *)
(* Risibank sticker browser (pack tags, image conversion, installs,        *)
(* search, collection detail), and of the drag, drop and paste handlers of *)
(* ConversationView.                                                       *)
(*                                                                         *)
(* Text is a sequence of one-character strings.  Offsets are 0-based as in *)
(* the source; TLA+ sequences are 1-based, so slice(t, a, b) is            *)
(* SubSeq(t, a + 1, b).                                                    *)
(***************************************************************************)
EXTENDS Integers, Sequences, FiniteSets, TLC

VARIABLES
    messageText,          \* Props.messageText: display text, suffix included
    originalMessageText,  \* Props.originalMessageText: full, untruncated text
    textLength,           \* Props.textLength: length without the suffix
    bodyRanges,           \* Props.bodyRanges, in the caller's order
    disableLinks,         \* Props.disableLinks
    pc,                   \* position inside the useMemo computation
    links,                \* const links
    sortedRanges,         \* const sortedRanges
    idx,                  \* position of reduce() in sortedRanges (1-based)
    spoilerCount,         \* let spoilerCount
    tree,                 \* the reduce accumulator acc / const tree
    inserted,             \* history: the ranges handed to insertRange, in order
    lastCall,             \* history: the last reduce step (range, tree before, called)
    nodes,                \* const nodes (collapseRangeTree result)
    finalNodes,           \* the memoised result (groupContiguousSpoilers result)
    node,                 \* renderNode: the display node handed to renderNode
    renderLocation,       \* Props.renderLocation
    isSpoilerExpanded,    \* Props.isSpoilerExpanded: spoiler id -> revealed
    rendered,             \* the element renderNode returned
    expandRequest,        \* the map handed to Props.onExpandSpoiler, if any
    runs,                 \* number of earlier runs of the useMemo callback
    previousNodes,        \* history: finalNodes of the previous run
    installedPacks,       \* Props.installedPacks of the sticker browser
    installingId,         \* useState installingId, updates applied
    seenInstallingId,     \* installingId as the last render's closures hold it
    selectedCollection,   \* useState selectedCollection (Null: the grid)
    collectionMedias,     \* Risibank API: collection id -> number of medias
    tasks,                \* the install calls that have not returned yet
    uploads,              \* history: packs handed to putStickers, in order
    request,              \* history: the install request handled last
    installLog,           \* history: the install calls that have returned
    conversion,           \* one convertToWebP call: position, quality, blob
    tagged,               \* the name, type and id a pack title was built from
    classified,           \* what extractInstalledRbIds returned
    search,               \* the browser's search: results, loading, timers, requests
    detail,               \* CollectionDetail: medias, loadingDetail, its requests
    conversation          \* ConversationView: drag counter, overlay, last event

renderVars == <<node, renderLocation, isSpoilerExpanded, rendered, expandRequest>>

memoVars == <<runs, previousNodes>>

stickerVars == <<installedPacks, installingId, seenInstallingId,
                 selectedCollection, collectionMedias, tasks, uploads, request,
                 installLog, conversion, tagged, classified,
                 search, detail, conversation>>

vars == <<messageText, originalMessageText, textLength, bodyRanges,
          disableLinks, pc, links, sortedRanges, idx, spoilerCount, tree,
          inserted, lastCall, nodes, finalNodes, renderVars, memoVars,
          stickerVars>>

(***************************************************************************)
(* Bounds                                                                  *)
(***************************************************************************)
MaxLen == 2          \* longest original text of the renderer specification
MaxRanges == 2       \* most body ranges in one render
MaxEnd == 3          \* largest end offset of a well-formed body range
MaxAnyRanges == 1    \* most body ranges in one render of unvalidated ranges
MaxScanLen == 4      \* longest original text of the link scanner specification
MaxNodes == 3        \* most display nodes handed to the spoiler merger directly
MaxNodeLen == 5      \* longest display node handed to the spoiler merger directly
MaxGap == 2          \* widest gap between two nodes handed to the spoiler merger
MaxCodeLen == 4      \* longest text of a monospace node handed to renderNode
MaxSpoilerId == 2    \* largest spoiler id of a node handed to renderNode
MaxRuns == 2         \* most runs of the useMemo callback on the same props

(***************************************************************************)
(* Generic helpers                                                         *)
(***************************************************************************)
Min(S) == CHOOSE x \in S : \A y \in S : x <= y

Max(S) == CHOOSE x \in S : \A y \in S : x >= y

SeqsUpTo(S, n) == UNION {[1..k -> S] : k \in 0..n}

\* String.prototype.slice(a, b) for 0 <= a, on 0-based offsets
slice(t, a, b) == SubSeq(t, a + 1, IF b > Len(t) THEN Len(t) ELSE b)

RECURSIVE repeat(_, _)
repeat(c, n) == IF n <= 0 THEN <<>> ELSE <<c>> \o repeat(c, n - 1)

(***************************************************************************)
(* Characters.  "h" stands for a supported scheme prefix, "a" for an       *)
(* ordinary URL character, "." for a dot, " " for white space; "H" "L" are *)
(* the two UTF-16 code units of one emoji (a surrogate pair).              *)
(***************************************************************************)
ScanChars == {"h", "a", ".", " ", "H", "L"}

(***************************************************************************)
(* Body ranges                                                             *)
(***************************************************************************)
FormattingStyles == {"BOLD", "ITALIC", "SPOILER", "STRIKETHROUGH", "MONOSPACE"}

isMention(range) == range.kind = "MENTION"

isFormatting(range) == range.kind \in FormattingStyles

isSpoilerStyle(range) == isFormatting(range) /\ range.kind = "SPOILER"

End(r) == r.start + r.length

mkRange(s, l, k) == [start |-> s, length |-> l, kind |-> k, spoilerId |-> 0, url |-> <<>>]

mkNode(range, children) ==
    [start |-> range.start, length |-> range.length, kind |-> range.kind,
     spoilerId |-> range.spoilerId, url |-> range.url, ranges |-> children]

(***************************************************************************)
(* Link Scanner                                                            *)
(***************************************************************************)
\* a variant that removes the emoji instead of replacing them
removeEmoji(t) == SelectSeq(t, LAMBDA c : c \notin {"H", "L"})

\* originalMessageText.replace(EMOJI_REGEXP, s => ' '.repeat(s.length))
RECURSIVE replaceEmoji(_)
replaceEmoji(t) ==
    IF Len(t) = 0 THEN <<>>
    ELSE IF Len(t) >= 2 /\ t[1] = "H" /\ t[2] = "L"
         THEN repeat(" ", 2) \o replaceEmoji(SubSeq(t, 3, Len(t)))
         ELSE <<t[1]>> \o replaceEmoji(Tail(t))

UrlChars == {"h", "a", "."}

\* length of the longest run of URL characters of t starting at 1-based i
RECURSIVE urlRun(_, _)
urlRun(t, i) ==
    IF i > Len(t) \/ t[i] \notin UrlChars THEN 0 ELSE 1 + urlRun(t, i + 1)

\* a URL never ends in a dot: drop the trailing dots of a run of length n
RECURSIVE trimDots(_, _, _)
trimDots(t, i, n) ==
    IF n > 0 /\ t[i + n - 1] = "." THEN trimDots(t, i, n - 1) ELSE n

\* linkify.match(text): the matches from 1-based position i on, in text order
RECURSIVE linkifyFrom(_, _)
linkifyFrom(t, i) ==
    IF i > Len(t) THEN <<>>
    ELSE IF t[i] = "h" /\ (i = 1 \/ t[i - 1] = " ")
         THEN LET n == trimDots(t, i, urlRun(t, i))
              IN IF n >= 2
                 THEN <<[index |-> i - 1, lastIndex |-> i - 1 + n,
                         url |-> SubSeq(t, i, i - 1 + n)]>>
                      \o linkifyFrom(t, i + urlRun(t, i))
                 ELSE linkifyFrom(t, i + urlRun(t, i))
         ELSE linkifyFrom(t, i + 1)

linkifyMatch(t) == linkifyFrom(t, 1)

\* a variant that accepts a match as soon as the display text shows its start
matchStartsPresent(m, msgText) ==
    IF m.index >= Len(msgText) THEN FALSE
    ELSE slice(msgText, m.index, m.lastIndex)
            = slice(m.url, 0, Len(msgText) - m.index)

\* a variant that only checks that the match lies inside the display text
matchInBounds(m, msgText) ==
    IF m.index >= Len(msgText) THEN FALSE
    ELSE m.lastIndex <= Len(msgText)

\* the filter callback of extractLinks
matchIsPresent(m, msgText) ==
    IF m.index >= Len(msgText) THEN FALSE
    ELSE IF m.lastIndex > Len(msgText) THEN FALSE
    ELSE slice(msgText, m.index, m.lastIndex) = m.url

RECURSIVE mapLinks(_)
mapLinks(ms) ==
    IF Len(ms) = 0 THEN <<>>
    ELSE <<[start |-> Head(ms).index,
            length |-> Head(ms).lastIndex - Head(ms).index,
            kind |-> "LINK", spoilerId |-> 0, url |-> Head(ms).url]>>
         \o mapLinks(Tail(ms))

extractLinks(msgText, origText) ==
    LET matches == linkifyMatch(replaceEmoji(origText))
        currentMatches == SelectSeq(matches, LAMBDA m : matchIsPresent(m, msgText))
    IN mapLinks(currentMatches)

(***************************************************************************)
(* Range Tree Builder (types/BodyRange: insertRange).  The walk is left to *)
(* right.  A range inside an existing node goes to that node's children;   *)
(* a range that contains consecutive nodes takes their place and becomes   *)
(* their parent; a range that crosses a node is dropped.  Mentions are     *)
(* leaves: a mention never accepts a child, and a mention that contains    *)
(* nodes takes their place without becoming their parent.                  *)
(***************************************************************************)
\* a variant that only looks at where the range starts
startsIn(range, n) == n.start <= range.start /\ range.start < n.start + n.length

\* range lies fully inside node n
containedIn(range, n) == n.start <= range.start /\ End(range) <= End(n)

\* node n lies fully inside range
containsNode(range, n) == range.start <= n.start /\ End(n) <= End(range)

\* the spans of range and n share at least one character
intersects(range, n) == n.start < End(range) /\ range.start < End(n)

\* a partial, crossing overlap: the spans intersect and neither contains the other
crosses(range, n) ==
    intersects(range, n) /\ ~containedIn(range, n) /\ ~containsNode(range, n)

\* a variant that keeps a crossing range as a further sibling
crossingKept(range, forest) == Append(forest, mkNode(range, <<>>))

\* the outcome for a range that crosses a node of forest: the range is dropped
crossingDropped(range, forest) == forest

\* a variant in which a mention adopts the nodes it contains
adoptedAlways(range, inside) == inside

\* the children of a new node that contains the nodes inside: a mention
\* stays a leaf
adopted(range, inside) == IF isMention(range) THEN <<>> ELSE inside

RECURSIVE insertRange(_, _)
insertRange(range, forest) ==
    LET holders == {i \in DOMAIN forest : containedIn(range, forest[i])}
        met == {i \in DOMAIN forest : intersects(range, forest[i])}
    IN IF holders # {}
       THEN \* fully contained within an existing node: recurse into its
            \* children; a mention never accepts children
            LET i == Min(holders)
            IN IF isMention(forest[i])
               THEN forest
               ELSE [forest EXCEPT ![i].ranges = insertRange(range, @)]
       ELSE IF \A i \in met : containsNode(range, forest[i])
            THEN \* contains zero or more consecutive nodes: they become its
                 \* children and it takes their place; a mention stays a leaf
                 LET before == SelectSeq(forest, LAMBDA n :
                                  ~intersects(range, n) /\ End(n) <= range.start)
                     inside == SelectSeq(forest, LAMBDA n : intersects(range, n))
                     after == SelectSeq(forest, LAMBDA n :
                                  ~intersects(range, n) /\ ~(End(n) <= range.start))
                 IN before
                    \o <<mkNode(range, adopted(range, inside))>>
                    \o after
            ELSE crossingDropped(range, forest)

(***************************************************************************)
(* Tree Collapser (types/BodyRange: collapseRangeTree).  An in-order walk  *)
(* that fills every gap with a node carrying the data of the enclosing     *)
(* node, clips every span to the text, and emits no empty node for a       *)
(* non-empty text.  A spoiler becomes one node whose spoilerChildren are   *)
(* the collapse of its own children; a mention becomes one node with its   *)
(* mentions list; any other node is replaced by the collapse of its span.  *)
(***************************************************************************)
plainData ==
    [isBold |-> FALSE, isItalic |-> FALSE, isStrikethrough |-> FALSE,
     isMonospace |-> FALSE, url |-> <<>>]

\* the data of a node of kind k nested in a parent with data d
withKind(d, n) ==
    [isBold |-> d.isBold \/ n.kind = "BOLD",
     isItalic |-> d.isItalic \/ n.kind = "ITALIC",
     isStrikethrough |-> d.isStrikethrough \/ n.kind = "STRIKETHROUGH",
     isMonospace |-> d.isMonospace \/ n.kind = "MONOSPACE",
     url |-> IF n.kind = "LINK" THEN n.url ELSE d.url]

displayNode(text, s, e, d, spoiler, id, children, mentions) ==
    [start |-> s, length |-> e - s, text |-> slice(text, s, e),
     isBold |-> d.isBold, isItalic |-> d.isItalic,
     isStrikethrough |-> d.isStrikethrough, isMonospace |-> d.isMonospace,
     isSpoiler |-> spoiler, spoilerId |-> id, spoilerChildren |-> children,
     mentions |-> mentions, url |-> d.url]

\* the display nodes of the siblings sibs from offset on, inside [offset, to),
\* gaps filled with nodes carrying the parent's data d
RECURSIVE collapseSpan(_, _, _, _, _)
collapseSpan(sibs, text, offset, to, d) ==
    IF Len(sibs) = 0
    THEN IF offset < to
         THEN <<displayNode(text, offset, to, d, FALSE, 0, <<>>, <<>>)>>
         ELSE <<>>
    ELSE LET n == Head(sibs)
             s == Max({n.start, offset})
             e == Min({End(n), to})
             gap == IF offset < Min({s, to})
                    THEN <<displayNode(text, offset, Min({s, to}), d, FALSE, 0, <<>>, <<>>)>>
                    ELSE <<>>
             own == IF s >= e THEN <<>>
                    ELSE IF n.kind = "SPOILER"
                    THEN <<displayNode(text, s, e, d, TRUE, n.spoilerId,
                              collapseSpan(n.ranges, text, s, e, d), <<>>)>>
                    ELSE IF n.kind = "MENTION"
                    THEN <<displayNode(text, s, e, d, FALSE, 0, <<>>,
                              <<[start |-> 0, length |-> e - s]>>)>>
                    ELSE collapseSpan(n.ranges, text, s, e, withKind(d, n))
         IN gap \o own \o collapseSpan(Tail(sibs), text, Max({offset, e}), to, d)

collapseRangeTree(forest, text) ==
    IF Len(text) = 0
    THEN <<displayNode(text, 0, 0, plainData, FALSE, 0, <<>>, <<>>)>>
    ELSE collapseSpan(forest, text, 0, Len(text), plainData)

(***************************************************************************)
(* Spoiler Merger (types/BodyRange: groupContiguousSpoilers).  Consecutive *)
(* spoilers that touch are merged into one spoiler that keeps the          *)
(* spoilerId of the first and concatenates the spoilerChildren.            *)
(***************************************************************************)
\* a variant that keeps the first spoiler of a run and drops the others
mergeKeepsFirst(a, b) == a

mergeSpoilers(a, b) ==
    [a EXCEPT !.length = a.length + b.length,
              !.text = a.text \o b.text,
              !.spoilerChildren = a.spoilerChildren \o b.spoilerChildren]

\* a variant that merges any two consecutive spoilers
bothSpoilers(a, b) == a.isSpoiler /\ b.isSpoiler

adjacentSpoilers(a, b) ==
    a.isSpoiler /\ b.isSpoiler /\ a.start + a.length = b.start

RECURSIVE groupContiguousSpoilers(_)
groupContiguousSpoilers(ns) ==
    IF Len(ns) <= 1 THEN ns
    ELSE IF adjacentSpoilers(ns[1], ns[2])
         THEN groupContiguousSpoilers(
                  <<mergeSpoilers(ns[1], ns[2])>> \o SubSeq(ns, 3, Len(ns)))
         ELSE <<ns[1]>> \o groupContiguousSpoilers(Tail(ns))

(***************************************************************************)
(* MessageTextRenderer: the useMemo computation                            *)
(***************************************************************************)
\* a variant with the sort key inverted
mentionsFirst(range) == IF isMention(range) THEN 0 ELSE 1

\* the iteratee of the sort: range => (BodyRange.isMention(range) ? 1 : 0)
mentionsLast(range) == IF isMention(range) THEN 1 ELSE 0

\* lodash sortBy(bodyRanges, iteratee): a stable sort on the key of the
\* iteratee, whose values are 0 and 1
sortBy(ranges) ==
    SelectSeq(ranges, LAMBDA r : mentionsLast(r) = 0)
        \o SelectSeq(ranges, LAMBDA r : mentionsLast(r) = 1)

\* links.map(b => ({ ...b, ranges: [] }))
RECURSIVE linkNodes(_)
linkNodes(ls) ==
    IF Len(ls) = 0 THEN <<>> ELSE <<mkNode(Head(ls), <<>>)>> \o linkNodes(Tail(ls))

\* a variant that reads the counter before it is incremented
withSpoilerIdBefore(range, count) == [range EXCEPT !.spoilerId = count - 1]

\* { ...range, spoilerId: spoilerCount }
withSpoilerId(range, count) == [range EXCEPT !.spoilerId = count]

\* a variant that keeps only the ranges lying wholly inside the text
appliesWholly(range, len) == range.start + range.length <= len

\* a variant that also validates the start of the range
appliesValidated(range, len) == 0 <= range.start /\ range.start < len

\* the reduce callback's test for the ranges that are not spoilers
appliesToText(range, len) == range.start < len

\* a variant that cuts the suffix off before collapsing
collapseTextTruncated(msgText, len) == SubSeq(msgText, 1, len)

\* the text handed to collapseRangeTree
collapseText(msgText, len) == msgText

\* nothing rendered yet: the values of the render variables while the
\* annotation pipeline is looked at on its own
renderIdle ==
    /\ node = <<>>
    /\ renderLocation = "Timeline"
    /\ isSpoilerExpanded = <<>>
    /\ rendered = <<>>
    /\ expandRequest = <<>>

\* the first run of the useMemo callback: there is no earlier run
memoIdle ==
    /\ runs = 0
    /\ previousNodes = <<>>

\* null of the sticker browser's number | null values; ids are never negative
Null == -1

\* the sticker browser is not mounted: its state holds nothing
stickerIdle ==
    /\ installedPacks = <<>>
    /\ installingId = Null
    /\ seenInstallingId = Null
    /\ selectedCollection = Null
    /\ collectionMedias = <<>>
    /\ tasks = {}
    /\ uploads = <<>>
    /\ request = <<>>
    /\ installLog = <<>>
    /\ conversion = <<>>
    /\ tagged = <<>>
    /\ classified = <<>>
    /\ search = <<>>
    /\ detail = <<>>
    /\ conversation = <<>>

\* a variant that sorts the caller's array in place
sortedInPlace(ranges) == sortBy(ranges)

\* the caller's array after sortBy(bodyRanges, ...): sortBy returns a new
\* array and leaves its argument as it was
afterSortBy(ranges) == ranges

\* a variant where the counter lives outside the callback and is carried over
carriedSpoilerCount(previous) == previous

\* let spoilerCount = 0: the counter is a local of the useMemo callback
freshSpoilerCount(previous) == 0

noCall == [called |-> FALSE, range |-> mkRange(0, 0, "NONE"), before |-> <<>>]

\* links and sortedRanges are computed; reduce starts from the link forest
Start ==
    /\ pc = "props"
    /\ links' = IF disableLinks THEN <<>>
                ELSE extractLinks(messageText, originalMessageText)
    /\ sortedRanges' = sortBy(bodyRanges)
    /\ spoilerCount' = freshSpoilerCount(spoilerCount)
    /\ tree' = linkNodes(links')
    /\ idx' = 1
    /\ pc' = "reduce"
    /\ bodyRanges' = afterSortBy(bodyRanges)
    /\ UNCHANGED <<messageText, originalMessageText, textLength,
                   disableLinks, inserted, lastCall, nodes, finalNodes>>
    /\ UNCHANGED <<renderVars, memoVars, stickerVars>>

\* one call of the reduce callback, for a spoiler formatting range
ReduceSpoiler ==
    /\ pc = "reduce"
    /\ idx <= Len(sortedRanges)
    /\ isSpoilerStyle(sortedRanges[idx])
    /\ LET range == withSpoilerId(sortedRanges[idx], spoilerCount + 1)
       IN /\ spoilerCount' = spoilerCount + 1
          /\ tree' = insertRange(range, tree)
          /\ inserted' = Append(inserted, range)
          /\ lastCall' = [called |-> TRUE, range |-> range, before |-> tree]
    /\ idx' = idx + 1
    /\ UNCHANGED <<messageText, originalMessageText, textLength, bodyRanges,
                   disableLinks, pc, links, sortedRanges, nodes, finalNodes>>
    /\ UNCHANGED <<renderVars, memoVars, stickerVars>>

\* one call of the reduce callback, for any other range that applies to the text
ReduceInsert ==
    /\ pc = "reduce"
    /\ idx <= Len(sortedRanges)
    /\ ~isSpoilerStyle(sortedRanges[idx])
    /\ appliesToText(sortedRanges[idx], textLength)
    /\ tree' = insertRange(sortedRanges[idx], tree)
    /\ inserted' = Append(inserted, sortedRanges[idx])
    /\ lastCall' = [called |-> TRUE, range |-> sortedRanges[idx], before |-> tree]
    /\ idx' = idx + 1
    /\ UNCHANGED <<messageText, originalMessageText, textLength, bodyRanges,
                   disableLinks, pc, links, sortedRanges, spoilerCount, nodes,
                   finalNodes>>
    /\ UNCHANGED <<renderVars, memoVars, stickerVars>>

\* one call of the reduce callback, for a range that does not apply: return acc
ReduceSkip ==
    /\ pc = "reduce"
    /\ idx <= Len(sortedRanges)
    /\ ~isSpoilerStyle(sortedRanges[idx])
    /\ ~appliesToText(sortedRanges[idx], textLength)
    /\ lastCall' = [called |-> FALSE, range |-> sortedRanges[idx], before |-> tree]
    /\ idx' = idx + 1
    /\ UNCHANGED <<messageText, originalMessageText, textLength, bodyRanges,
                   disableLinks, pc, links, sortedRanges, spoilerCount, tree,
                   inserted, nodes, finalNodes>>
    /\ UNCHANGED <<renderVars, memoVars, stickerVars>>

\* collapseRangeTree, then groupContiguousSpoilers: the memoised finalNodes
Finish ==
    /\ pc = "reduce"
    /\ idx > Len(sortedRanges)
    /\ nodes' = collapseRangeTree(tree, collapseText(messageText, textLength))
    /\ finalNodes' = groupContiguousSpoilers(nodes')
    /\ pc' = "done"
    /\ UNCHANGED <<messageText, originalMessageText, textLength, bodyRanges,
                   disableLinks, links, sortedRanges, idx, spoilerCount, tree,
                   inserted, lastCall>>
    /\ UNCHANGED <<renderVars, memoVars, stickerVars>>

(***************************************************************************)
(* The renderer specification: one render of well-formed props             *)
(***************************************************************************)
RenderKinds == {"BOLD", "SPOILER", "MENTION"}

WellFormedRanges ==
    {r \in {mkRange(s, l, k) : s \in 0..MaxEnd, l \in 1..MaxEnd, k \in RenderKinds} :
        End(r) <= MaxEnd}

\* texts without a link, texts that are one link, and texts that end in a
\* link
RenderTexts ==
    {repeat("a", n) : n \in 0..MaxLen}
        \cup {<<"h">> \o repeat("a", n - 1) : n \in 2..MaxLen}
        \cup {repeat(" ", n - 2) \o <<"h", "a">> : n \in 3..MaxLen}

hasLinkChar(t) == \E i \in DOMAIN t : t[i] = "h"

InitProps(ranges) ==
    /\ originalMessageText \in RenderTexts
    /\ textLength \in 0..Len(originalMessageText)
    /\ \E suffix \in {<<>>, <<".">>} :
          messageText = SubSeq(originalMessageText, 1, textLength) \o suffix
    /\ disableLinks \in (IF hasLinkChar(originalMessageText) THEN BOOLEAN ELSE {FALSE})
    /\ bodyRanges \in ranges
    /\ pc = "props"
    /\ links = <<>>
    /\ sortedRanges = <<>>
    /\ idx = 1
    /\ spoilerCount = 0
    /\ tree = <<>>
    /\ inserted = <<>>
    /\ lastCall = noCall
    /\ nodes = <<>>
    /\ finalNodes = <<>>
    /\ renderIdle
    /\ memoIdle
    /\ stickerIdle

Init == InitProps(SeqsUpTo(WellFormedRanges, MaxRanges))

Next == Start \/ ReduceSpoiler \/ ReduceInsert \/ ReduceSkip \/ Finish

Spec == Init /\ [][Next]_vars

(***************************************************************************)
(* Properties of the renderer                                              *)
(***************************************************************************)
\* every node of a forest, at any depth
RECURSIVE AllNodes(_)
AllNodes(forest) ==
    UNION {{forest[i]} \cup AllNodes(forest[i].ranges) : i \in DOMAIN forest}

\* every display node of a list, the spoiler children included
RECURSIVE AllDisplayNodes(_)
AllDisplayNodes(ns) ==
    UNION {{ns[i]} \cup AllDisplayNodes(ns[i].spoilerChildren) : i \in DOMAIN ns}

\* the spans of ns are contiguous, start at 0, end at n, and none is empty
\* unless n is 0; every node carries the text of its span
Tiles(ns, n) ==
    /\ Len(ns) > 0
    /\ ns[1].start = 0
    /\ End(ns[Len(ns)]) = n
    /\ \A i \in 1..(Len(ns) - 1) : End(ns[i]) = ns[i + 1].start
    /\ \A i \in DOMAIN ns : ns[i].length > 0 \/ (n = 0 /\ ns[i].length = 0)
    /\ \A i \in DOMAIN ns : Len(ns[i].text) = ns[i].length

\* C1 as stated: the final display nodes tile [0, textLength)
C1_TilesTextLength == pc = "done" => Tiles(finalNodes, textLength)

\* C1 (amended): the final display nodes are contiguous, non-overlapping,
\* free of zero-length nodes unless the display text is empty, and cover
\* exactly [0, messageText.length), the appended suffix included
C1_TilesMessageText == pc = "done" => Tiles(finalNodes, Len(messageText))

C1_Witness ==
    /\ pc = "done"
    /\ Len(messageText) > textLength
    /\ Len(finalNodes) >= 2
    /\ \E i \in DOMAIN inserted : End(inserted[i]) > Len(messageText)

\* C2: a range handed to insertRange that crosses a node of the forest
\* (partial intersection, neither contains the other) leaves the forest
\* exactly as it was: the earlier nodes survive unchanged and the range is
\* neither added, split nor clipped
C2_CrossingDropped ==
    (lastCall.called
        /\ \E n \in AllNodes(lastCall.before) : crosses(lastCall.range, n))
    => tree = lastCall.before

C2_Witness ==
    /\ pc = "done"
    /\ lastCall.called
    /\ \E n \in AllNodes(lastCall.before) : crosses(lastCall.range, n)
    /\ Len(finalNodes) >= 2

\* siblings ascend and do not overlap; children lie inside their parent
RECURSIVE ForestOK(_)
ForestOK(forest) ==
    /\ \A i \in 1..(Len(forest) - 1) :
          /\ forest[i].start <= forest[i + 1].start
          /\ End(forest[i]) <= forest[i + 1].start
    /\ \A i \in DOMAIN forest :
          /\ \A j \in DOMAIN forest[i].ranges :
                /\ forest[i].ranges[j].start >= forest[i].start
                /\ End(forest[i].ranges[j]) <= End(forest[i])
          /\ ForestOK(forest[i].ranges)

\* C3: at every point of the reduce, children lie inside their parent's span
\* and siblings are in ascending start order without overlap
C3_ForestInvariant == ForestOK(tree)

C3_Witness ==
    /\ Len(tree) >= 2
    /\ \E i \in DOMAIN tree : Len(tree[i].ranges) >= 1

\* C4: a mention node never has children, and no display node made from a
\* mention has spoiler children
C4_MentionLeaf ==
    /\ \A n \in AllNodes(tree) : isMention(n) => n.ranges = <<>>
    /\ \A d \in AllDisplayNodes(finalNodes) :
          d.mentions # <<>> => d.spoilerChildren = <<>>

C4_Witness ==
    /\ pc = "done"
    /\ lastCall.called
    /\ isMention(lastCall.range)
    /\ \E n \in AllNodes(lastCall.before) :
          containsNode(lastCall.range, n) /\ ~containedIn(lastCall.range, n)
    /\ \E n \in AllNodes(tree) : isMention(n)
    /\ \E d \in AllDisplayNodes(finalNodes) : d.mentions # <<>>

\* C6 as stated: no range with start >= textLength is handed to insertRange
C6_NoneBeyondTextLength ==
    \A i \in DOMAIN inserted : inserted[i].start < textLength

\* the range as the caller passed it
asPassed(range) == [range EXCEPT !.spoilerId = 0]

\* C7 as stated, for the ranges that are not spoilers (C6 covers those):
\* every range handed to insertRange ends within textLength
C7_EndsWithinTextLength ==
    \A i \in DOMAIN inserted :
        ~isSpoilerStyle(inserted[i]) => End(inserted[i]) <= textLength

\* C7 (amended): every range handed to insertRange is a spoiler range or
\* starts before textLength; it keeps the start and length the caller gave
\* it (a tail beyond textLength is neither dropped nor clamped), and no
\* range that is a spoiler or starts before textLength is left out
C7_StartsWithinTextLength ==
    /\ \A i \in DOMAIN inserted :
          /\ isSpoilerStyle(inserted[i]) \/ inserted[i].start < textLength
          /\ \E j \in DOMAIN bodyRanges : asPassed(inserted[i]) = bodyRanges[j]
    /\ pc = "done" =>
          \A j \in DOMAIN bodyRanges :
              (isSpoilerStyle(bodyRanges[j]) \/ bodyRanges[j].start < textLength)
              => \E i \in DOMAIN inserted : asPassed(inserted[i]) = bodyRanges[j]

C7_Witness ==
    /\ pc = "done"
    /\ \E i \in DOMAIN inserted :
          /\ ~isSpoilerStyle(inserted[i])
          /\ End(inserted[i]) > textLength
    /\ Len(inserted) < Len(bodyRanges)

\* C9: the reduce starts from the link forest; among the ranges handed to
\* insertRange no mention precedes a formatting range; formatting ranges
\* keep the caller's relative order and so do mention ranges
C9_InsertionOrder ==
    /\ (pc = "reduce" /\ idx = 1) => tree = linkNodes(links)
    /\ \A i, j \in DOMAIN inserted :
          (i < j /\ isMention(inserted[i])) => isMention(inserted[j])
    /\ \E f \in [DOMAIN inserted -> DOMAIN bodyRanges] :
          /\ \A i \in DOMAIN inserted : bodyRanges[f[i]] = asPassed(inserted[i])
          /\ \A i, j \in DOMAIN inserted :
                (i < j /\ isMention(inserted[i]) = isMention(inserted[j]))
                => f[i] < f[j]

C9_Witness ==
    /\ pc = "done"
    /\ Len(inserted) >= 2
    /\ isMention(bodyRanges[1])
    /\ ~isMention(inserted[1])
    /\ links # <<>>

(***************************************************************************)
(* The renderer on unvalidated ranges: negative starts, lengths that are   *)
(* zero or negative, unknown kinds                                         *)
(***************************************************************************)
AnyRanges ==
    {r \in {mkRange(s, l, k) : s \in (-1)..MaxEnd, l \in (-1)..MaxEnd, k \in RenderKinds \cup {"UNKNOWN"}} :
        End(r) <= MaxEnd}

InitAny == InitProps(SeqsUpTo(AnyRanges, MaxAnyRanges))

SpecAny == InitAny /\ [][Next]_vars

malformed(range, len) ==
    \/ range.start < 0
    \/ range.length <= 0
    \/ End(range) > len
    \/ range.kind \notin (FormattingStyles \cup {"MENTION", "LINK"})

RECURSIVE mapAsPassed(_)
mapAsPassed(rs) ==
    IF Len(rs) = 0 THEN <<>> ELSE <<asPassed(Head(rs))>> \o mapAsPassed(Tail(rs))

\* C8 as stated: no malformed range is handed to insertRange
C8_MalformedDropped ==
    \A i \in DOMAIN inserted : ~malformed(inserted[i], textLength)

\* C8 (amended): the ranges dropped are exactly the ranges that are not
\* spoilers and have start >= textLength; every other range, malformed or
\* not, is handed to insertRange as the caller passed it
C8_OnlyStartFilter ==
    pc = "done" =>
        mapAsPassed(inserted)
            = SelectSeq(sortedRanges,
                        LAMBDA r : isSpoilerStyle(r) \/ r.start < textLength)

C8_Witness ==
    /\ pc = "done"
    /\ \E i \in DOMAIN inserted :
          inserted[i].start < 0 \/ inserted[i].length <= 0
              \/ inserted[i].kind = "UNKNOWN"

(***************************************************************************)
(* The spoiler merger on its own: a list of display nodes is built, then   *)
(* grouped                                                                 *)
(***************************************************************************)
plainNode(s, l) ==
    displayNode(repeat("a", s + l), s, s + l, plainData, FALSE, 0, <<>>, <<>>)

spoilerNode(s, l, id) ==
    displayNode(repeat("a", s + l), s, s + l, plainData, TRUE, id,
                <<plainNode(s, l)>>, <<>>)

InitMerge ==
    /\ pc = "nodes"
    /\ nodes = <<>>
    /\ finalNodes = <<>>
    /\ renderIdle
    /\ memoIdle
    /\ stickerIdle
    /\ spoilerCount = 0
    /\ messageText = <<>>
    /\ originalMessageText = <<>>
    /\ textLength = 0
    /\ bodyRanges = <<>>
    /\ disableLinks = TRUE
    /\ links = <<>>
    /\ sortedRanges = <<>>
    /\ idx = 1
    /\ tree = <<>>
    /\ inserted = <<>>
    /\ lastCall = noCall

\* the next display node of the list: a plain node or a spoiler
AddNode ==
    /\ pc = "nodes"
    /\ Len(nodes) < MaxNodes
    /\ \E l \in 1..MaxNodeLen, gap \in 0..MaxGap, spoiler \in BOOLEAN :
          LET s == IF Len(nodes) = 0 THEN 0 ELSE End(nodes[Len(nodes)]) + gap
          IN /\ Len(nodes) = 0 => gap = 0
             /\ spoilerCount' = IF spoiler THEN spoilerCount + 1 ELSE spoilerCount
             /\ nodes' = Append(nodes, IF spoiler THEN spoilerNode(s, l, spoilerCount')
                                       ELSE plainNode(s, l))
    /\ UNCHANGED <<messageText, originalMessageText, textLength, bodyRanges,
                   disableLinks, pc, links, sortedRanges, idx, tree, inserted,
                   lastCall, finalNodes>>
    /\ UNCHANGED <<renderVars, memoVars, stickerVars>>

Group ==
    /\ pc = "nodes"
    /\ finalNodes' = groupContiguousSpoilers(nodes)
    /\ pc' = "grouped"
    /\ UNCHANGED <<messageText, originalMessageText, textLength, bodyRanges,
                   disableLinks, links, sortedRanges, idx, spoilerCount, tree,
                   inserted, lastCall, nodes>>
    /\ UNCHANGED <<renderVars, memoVars, stickerVars>>

SpecMerge == InitMerge /\ [][AddNode \/ Group]_vars

\* a and b are both spoilers and b starts where a ends
Touching(a, b) == a.isSpoiler /\ b.isSpoiler /\ End(a) = b.start

\* nodes i..j of ns form a maximal run of adjacent spoilers
MaximalRun(ns, i, j) ==
    /\ i <= j
    /\ \A k \in i..j : ns[k].isSpoiler
    /\ \A k \in i..(j - 1) : End(ns[k]) = ns[k + 1].start
    /\ i > 1 => ~Touching(ns[i - 1], ns[i])
    /\ j < Len(ns) => ~Touching(ns[j], ns[j + 1])

\* C5: every maximal run of adjacent spoilers is replaced by exactly one
\* spoiler node that spans the run and has the spoilerId of its first node;
\* the output has one spoiler per run and no two consecutive output nodes
\* are adjacent spoilers
C5_SpoilerMerge ==
    pc = "grouped" =>
        /\ \A i, j \in DOMAIN nodes :
              MaximalRun(nodes, i, j) =>
                  Cardinality({k \in DOMAIN finalNodes :
                      /\ finalNodes[k].isSpoiler
                      /\ finalNodes[k].start = nodes[i].start
                      /\ End(finalNodes[k]) = End(nodes[j])
                      /\ finalNodes[k].spoilerId = nodes[i].spoilerId}) = 1
        /\ Cardinality({k \in DOMAIN finalNodes : finalNodes[k].isSpoiler})
              = Cardinality({r \in (DOMAIN nodes) \X (DOMAIN nodes) :
                                MaximalRun(nodes, r[1], r[2])})
        /\ \A k \in 1..(Len(finalNodes) - 1) :
              ~Touching(finalNodes[k], finalNodes[k + 1])

\* spoilers at [0,5), [5,8) and [10,12) give the groups [0,8) and [10,12)
C5_Witness ==
    /\ pc = "grouped"
    /\ Len(nodes) = 3
    /\ \A k \in 1..3 : nodes[k].isSpoiler
    /\ <<nodes[1].start, nodes[1].length>> = <<0, 5>>
    /\ <<nodes[2].start, nodes[2].length>> = <<5, 3>>
    /\ <<nodes[3].start, nodes[3].length>> = <<10, 2>>
    /\ Len(finalNodes) = 2
    /\ <<finalNodes[1].start, finalNodes[1].length>> = <<0, 8>>
    /\ <<finalNodes[2].start, finalNodes[2].length>> = <<10, 2>>

(***************************************************************************)
(* The link scanner on its own: extractLinks on a display text that is a   *)
(* prefix of the original text plus a suffix                               *)
(***************************************************************************)
InitLinks ==
    /\ originalMessageText \in SeqsUpTo(ScanChars, MaxScanLen)
    /\ textLength \in 0..Len(originalMessageText)
    /\ \E suffix \in {<<>>, <<".", ".", ".">>, <<"a">>} :
          messageText = SubSeq(originalMessageText, 1, textLength) \o suffix
    /\ pc = "scan"
    /\ links = <<>>
    /\ disableLinks = FALSE
    /\ bodyRanges = <<>>
    /\ sortedRanges = <<>>
    /\ idx = 1
    /\ spoilerCount = 0
    /\ tree = <<>>
    /\ inserted = <<>>
    /\ lastCall = noCall
    /\ nodes = <<>>
    /\ finalNodes = <<>>
    /\ renderIdle
    /\ memoIdle
    /\ stickerIdle

Scan ==
    /\ pc = "scan"
    /\ links' = extractLinks(messageText, originalMessageText)
    /\ pc' = "scanned"
    /\ UNCHANGED <<messageText, originalMessageText, textLength, bodyRanges,
                   disableLinks, sortedRanges, idx, spoilerCount, tree,
                   inserted, lastCall, nodes, finalNodes>>
    /\ UNCHANGED <<renderVars, memoVars, stickerVars>>

SpecLinks == InitLinks /\ [][Scan]_vars

\* the candidate matches of the scan
Candidates == linkifyMatch(replaceEmoji(originalMessageText))

C11_LinkTextPresent ==
    pc = "scanned" =>
        /\ \A i \in DOMAIN links :
              /\ End(links[i]) <= Len(messageText)
              /\ slice(messageText, links[i].start, End(links[i]))
                    = slice(originalMessageText, links[i].start, End(links[i]))
        /\ \A k \in DOMAIN Candidates :
              slice(messageText, Candidates[k].index, Candidates[k].lastIndex)
                    # slice(originalMessageText, Candidates[k].index,
                            Candidates[k].lastIndex)
                => \A i \in DOMAIN links : links[i].start # Candidates[k].index

\* a link survives a truncated display text that carries a suffix
C11_Witness ==
    /\ pc = "scanned"
    /\ textLength < Len(originalMessageText)
    /\ Len(messageText) > textLength
    /\ \E i \in DOMAIN links : End(links[i]) <= textLength

\* 1-based position i of t lies inside an emoji (a surrogate pair "H","L")
inEmoji(t, i) ==
    \/ t[i] = "H" /\ i < Len(t) /\ t[i + 1] = "L"
    \/ t[i] = "L" /\ i > 1 /\ t[i - 1] = "H"

\* C12: the scanned text has the length of the source, holds a placeholder
\* at every position of an emoji and the source character everywhere else;
\* a link directly after an emoji starts at the offset just past the emoji
C12_EmojiOffsets ==
    pc = "scanned" =>
        LET scanned == replaceEmoji(originalMessageText)
        IN /\ Len(scanned) = Len(originalMessageText)
           /\ \A i \in DOMAIN originalMessageText :
                 scanned[i] = IF inEmoji(originalMessageText, i)
                              THEN " " ELSE originalMessageText[i]
           /\ \A i \in DOMAIN originalMessageText :
                 /\ i + 3 <= Len(originalMessageText)
                 /\ originalMessageText[i] = "H"
                 /\ originalMessageText[i + 1] = "L"
                 /\ originalMessageText[i + 2] = "h"
                 /\ originalMessageText[i + 3] \in {"h", "a"}
                 /\ messageText = originalMessageText
                 => \E j \in DOMAIN links :
                       /\ links[j].start = i + 1
                       /\ links[j].url[1] = "h"

C12_Witness ==
    /\ pc = "scanned"
    /\ originalMessageText = <<"H", "L", "h", "a">>
    /\ messageText = originalMessageText
    /\ Len(links) = 1
    /\ links[1].start = 2
    /\ links[1].length = 2

(***************************************************************************)
(* Presentation Dispatcher: renderNode                                     *)
(*                                                                         *)
(* Code text is a sequence over "c" and "v" (lower-case letters), "C" (the *)
(* upper-case "c"), " " and "\n".  A url is a sequence over "h" (a         *)
(* supported scheme), "f" (any other scheme), "a" and "x" (a character     *)
(* that makes the link deceptive); the empty sequence is no url.           *)
(***************************************************************************)
RenderLocation ==
    {"ConversationList", "Quote", "MediaEditor", "PinnedMessagesBar",
     "SearchResult", "StoryViewer", "Timeline"}

CodeChars == {"c", "v", "C", " ", "\n"}

\* the entries of KNOWN_LANGUAGES that can be written with CodeChars
KNOWN_LANGUAGES == {<<"c">>, <<"v">>}

\* hljs.registerLanguage: 'c' is registered, 'v' is not
RegisteredLanguages == {<<"c">>}

includes(t, c) == \E i \in DOMAIN t : t[i] = c

\* String.prototype.indexOf: 0-based, -1 when absent
indexOf(t, c) ==
    IF includes(t, c) THEN Min({i \in DOMAIN t : t[i] = c}) - 1 ELSE -1

isWhiteSpace(c) == c \in {" ", "\n"}

RECURSIVE trimStart(_)
trimStart(t) ==
    IF Len(t) > 0 /\ isWhiteSpace(t[1]) THEN trimStart(Tail(t)) ELSE t

RECURSIVE trimEnd(_)
trimEnd(t) ==
    IF Len(t) > 0 /\ isWhiteSpace(t[Len(t)])
    THEN trimEnd(SubSeq(t, 1, Len(t) - 1)) ELSE t

trim(t) == trimEnd(trimStart(t))

toLowerCase(t) == [i \in DOMAIN t |-> IF t[i] = "C" THEN "c" ELSE t[i]]

\* highlightCode(code, lang): which highlight.js entry point is called
highlightCode(code, lang) ==
    IF lang # <<>> /\ lang \in RegisteredLanguages
    THEN [call |-> "highlight", language |-> lang, code |-> code]
    ELSE [call |-> "highlightAuto", language |-> <<>>, code |-> code]

noHtml == [call |-> "none", language |-> <<>>, code |-> <<>>]

\* a variant that compares the first line as written
sniffExact(text) ==
    LET firstNewline == indexOf(text, "\n")
        possibleLang == slice(text, 0, firstNewline)
    IN IF firstNewline > 0 /\ possibleLang \in KNOWN_LANGUAGES
       THEN [lang |-> possibleLang,
             codeText |-> slice(text, firstNewline + 1, Len(text))]
       ELSE [lang |-> <<>>, codeText |-> text]

\* the language sniffing of the code block branch: lang (<<>> is null) and
\* codeText
sniffLanguage(text) ==
    LET firstNewline == indexOf(text, "\n")
        possibleLang == toLowerCase(trim(slice(text, 0, firstNewline)))
    IN IF firstNewline > 0 /\ possibleLang \in KNOWN_LANGUAGES
       THEN [lang |-> possibleLang,
             codeText |-> slice(text, firstNewline + 1, Len(text))]
       ELSE [lang |-> <<>>, codeText |-> text]

\* SUPPORTED_PROTOCOLS.test(url)
supportedProtocol(url) == Len(url) > 0 /\ url[1] = "h"

isLinkSneaky(url) == includes(url, "x")

\* a variant without the deceptive-link check
isHyperlinkUnchecked(url) == url # <<>> /\ supportedProtocol(url)

\* the condition of the <a> branch
isHyperlink(url) ==
    url # <<>> /\ supportedProtocol(url) /\ ~isLinkSneaky(url)

\* a variant that renders a block in every render location
isCodeBlockAnywhere(n, location) == n.isMonospace /\ includes(n.text, "\n")

\* the condition of the code block branch
isCodeBlock(n, location) ==
    n.isMonospace /\ includes(n.text, "\n") /\ location = "Timeline"

\* a variant that looks up the reveal map without the node's spoiler id
isSpoilerHiddenAnyId(n, expanded) == n.isSpoiler /\ ~expanded[0]

\* Boolean(node.isSpoiler && !isSpoilerExpanded[node.spoilerId || 0]); the
\* map is total here, a missing key of the source's record reads as FALSE
isSpoilerHidden(n, expanded) == n.isSpoiler /\ ~expanded[n.spoilerId]

\* node.isKeywordHighlight, an optional field
isKeywordHighlight(n) ==
    "isKeywordHighlight" \in DOMAIN n /\ n.isKeywordHighlight

\* renderMentions for a node without mentions: the node's text
renderMentions(n) == <<"#text">>

\* a variant that wraps in the opposite order
styleWrappersBoldLast(n, content) ==
    LET struck == IF n.isStrikethrough THEN <<"s">> \o content ELSE content
        italic == IF n.isItalic THEN <<"em">> \o struck ELSE struck
    IN IF n.isBold \/ isKeywordHighlight(n) THEN <<"strong">> \o italic ELSE italic

\* the three wrapping steps; the result lists the wrappers from the
\* outermost one inwards, down to the content they wrap
styleWrappers(n, content) ==
    LET bold == IF n.isBold \/ isKeywordHighlight(n)
                THEN <<"strong">> \o content ELSE content
        italic == IF n.isItalic THEN <<"em">> \o bold ELSE bold
    IN IF n.isStrikethrough THEN <<"s">> \o italic ELSE italic

\* a React element: tag, classes, wrapped content, child elements, and the
\* attributes that only some elements carry
element(tag, className, content, children) ==
    [tag |-> tag, className |-> className, content |-> content,
     children |-> children, href |-> <<>>, lang |-> <<>>, html |-> noHtml,
     locationClass |-> "", onClick |-> FALSE, expands |-> 0]

RECURSIVE renderNode(_, _, _, _, _)
renderNode(n, isInvisible, expanded, noLinks, location) ==
    IF n.isSpoiler /\ Len(n.spoilerChildren) > 0
    THEN LET hidden == isSpoilerHidden(n, expanded)
             content == [i \in DOMAIN n.spoilerChildren |->
                            renderNode(n.spoilerChildren[i], hidden, expanded,
                                       noLinks, location)]
         IN IF ~hidden
            THEN element("span", {"spoiler--revealed"}, <<>>, content)
            ELSE [element("span",
                          {"spoiler"} \cup (IF noLinks
                                            THEN {"spoiler--noninteractive"}
                                            ELSE {}),
                          <<>>, content)
                    EXCEPT !.locationClass = location,
                           !.onClick = ~noLinks,
                           !.expands = n.spoilerId]
    ELSE LET content == styleWrappers(n, renderMentions(n))
             invisible == IF isInvisible THEN {"invisible"} ELSE {}
         IN IF isCodeBlock(n, location)
            THEN LET sniffed == sniffLanguage(n.text)
                 IN [element("pre",
                             {"codeblock"} \cup invisible
                                \cup (IF sniffed.lang # <<>>
                                      THEN {"codeblock--lang"} ELSE {}),
                             <<>>, <<>>)
                       EXCEPT !.lang = sniffed.lang,
                              !.html = highlightCode(sniffed.codeText,
                                                     sniffed.lang)]
            ELSE LET formattingClasses ==
                         (IF n.isMonospace THEN {"monospace"} ELSE {})
                            \cup (IF isKeywordHighlight(n)
                                  THEN {"keywordHighlight"} ELSE {})
                            \cup invisible
                 IN IF isHyperlink(n.url)
                    THEN [element("a", formattingClasses, content, <<>>)
                            EXCEPT !.href = n.url]
                    ELSE element("span", formattingClasses, content, <<>>)

\* a variant that emits a map holding the activated spoiler only
expandedOnly(expanded, id) == [k \in DOMAIN expanded |-> k = id]

\* the map a click on a masked spoiler hands to onExpandSpoiler
expandedWith(expanded, id) == [expanded EXCEPT ![id] = TRUE]

(***************************************************************************)
(* The dispatcher on its own: one display node is rendered, and a masked   *)
(* spoiler of the result may then be clicked                               *)
(***************************************************************************)
UrlSamples == {<<>>, <<"h", "a">>, <<"f", "a">>, <<"h", "x">>, <<"f", "x">>}

StyleData ==
    [isBold : BOOLEAN, isItalic : BOOLEAN, isStrikethrough : BOOLEAN,
     isMonospace : BOOLEAN, url : UrlSamples]

StyleTexts == {<<"c">>, <<"c", "\n", "v">>}

renderLeaf(text, d, keyword) ==
    [start |-> 0, length |-> Len(text), text |-> text,
     isBold |-> d.isBold, isItalic |-> d.isItalic,
     isStrikethrough |-> d.isStrikethrough, isMonospace |-> d.isMonospace,
     isSpoiler |-> FALSE, spoilerId |-> 0, spoilerChildren |-> <<>>,
     mentions |-> <<>>, url |-> d.url, isKeywordHighlight |-> keyword]

monospaceData == [plainData EXCEPT !.isMonospace = TRUE]

RECURSIVE joinTexts(_)
joinTexts(ns) ==
    IF Len(ns) = 0 THEN <<>> ELSE Head(ns).text \o joinTexts(Tail(ns))

\* a spoiler node over the given children
renderSpoiler(id, d, children) ==
    [renderLeaf(joinTexts(children), d, FALSE)
        EXCEPT !.isSpoiler = TRUE, !.spoilerId = id,
               !.spoilerChildren = children]

StyleNodes ==
    {renderLeaf(t, d, k) : t \in StyleTexts, d \in StyleData, k \in BOOLEAN}

CodeNodes ==
    {renderLeaf(t, monospaceData, FALSE) : t \in SeqsUpTo(CodeChars, MaxCodeLen)}

SpoilerLeaves ==
    {renderLeaf(t, d, FALSE) :
        t \in StyleTexts,
        d \in {plainData, monospaceData, [plainData EXCEPT !.url = <<"h", "a">>]}}

SpoilerNodes ==
    {renderSpoiler(id, d, <<c>>) :
        id \in 0..MaxSpoilerId, d \in {plainData, monospaceData},
        c \in SpoilerLeaves}
    \cup
    {renderSpoiler(id, plainData,
                   <<c, renderSpoiler(inner, plainData,
                                      <<renderLeaf(<<"c">>, plainData, FALSE)>>)>>) :
        id \in 0..MaxSpoilerId, inner \in 0..MaxSpoilerId, c \in SpoilerLeaves}

InitRender ==
    /\ node \in StyleNodes \cup CodeNodes \cup SpoilerNodes
    /\ renderLocation \in RenderLocation
    /\ isSpoilerExpanded \in [0..MaxSpoilerId -> BOOLEAN]
    /\ disableLinks \in BOOLEAN
    /\ rendered = <<>>
    /\ expandRequest = <<>>
    /\ pc = "render"
    /\ messageText = <<>>
    /\ originalMessageText = <<>>
    /\ textLength = 0
    /\ bodyRanges = <<>>
    /\ links = <<>>
    /\ sortedRanges = <<>>
    /\ idx = 1
    /\ spoilerCount = 0
    /\ tree = <<>>
    /\ inserted = <<>>
    /\ lastCall = noCall
    /\ nodes = <<>>
    /\ finalNodes = <<>>
    /\ memoIdle
    /\ stickerIdle

pipelineVars ==
    <<messageText, originalMessageText, textLength, bodyRanges, disableLinks,
      links, sortedRanges, idx, spoilerCount, tree, inserted, lastCall, nodes,
      finalNodes>>

\* renderNode is called for the node, as MessageTextRenderer calls it
Render ==
    /\ pc = "render"
    /\ rendered' = renderNode(node, FALSE, isSpoilerExpanded, disableLinks,
                              renderLocation)
    /\ pc' = "rendered"
    /\ UNCHANGED <<node, renderLocation, isSpoilerExpanded, expandRequest>>
    /\ UNCHANGED <<pipelineVars, memoVars, stickerVars>>

\* the element el and the elements below it
RECURSIVE elementsOf(_)
elementsOf(el) ==
    {el} \cup UNION {elementsOf(el.children[i]) : i \in DOMAIN el.children}

\* onClick of a masked spoiler, with onExpandSpoiler given by the caller
ExpandSpoiler ==
    /\ pc = "rendered"
    /\ \E el \in elementsOf(rendered) :
          /\ el.onClick
          /\ expandRequest' = expandedWith(isSpoilerExpanded, el.expands)
    /\ pc' = "clicked"
    /\ UNCHANGED <<node, renderLocation, isSpoilerExpanded, rendered>>
    /\ UNCHANGED <<pipelineVars, memoVars, stickerVars>>

\* onKeyDown of a masked spoiler, with onExpandSpoiler given by the caller
KeyDownSpoiler ==
    /\ pc = "rendered"
    /\ \E el \in elementsOf(rendered), key \in {"Enter", " ", "Tab"} :
          /\ el.onClick
          /\ IF key # "Enter" /\ key # " "
             THEN pc' = "ignored" /\ UNCHANGED expandRequest
             ELSE /\ expandRequest' = expandedWith(isSpoilerExpanded, el.expands)
                  /\ pc' = "clicked"
    /\ UNCHANGED <<node, renderLocation, isSpoilerExpanded, rendered>>
    /\ UNCHANGED <<pipelineVars, memoVars, stickerVars>>

\* a click or a key on a masked spoiler when the caller gave no
\* onExpandSpoiler: nothing is emitted
ActivateUnheard ==
    /\ pc = "rendered"
    /\ \E el \in elementsOf(rendered) : el.onClick
    /\ pc' = "unheard"
    /\ UNCHANGED <<node, renderLocation, isSpoilerExpanded, rendered,
                   expandRequest>>
    /\ UNCHANGED <<pipelineVars, memoVars, stickerVars>>

SpecRender == InitRender /\ [][Render \/ ExpandSpoiler \/ KeyDownSpoiler \/ ActivateUnheard]_vars

(***************************************************************************)
(* Properties of renderNode                                                *)
(***************************************************************************)
hasRendered == pc \in {"rendered", "clicked", "ignored", "unheard"}

\* the node went through the styling steps and came out as a span or a link
renderedInline == hasRendered /\ rendered.tag \in {"a", "span"} /\ ~node.isSpoiler

\* wherever both wrappers occur in content, outer is around inner
Around(content, outer, inner) ==
    \A i, j \in DOMAIN content :
        content[i] = outer /\ content[j] = inner => i < j

\* each wrapper is present exactly when its flag is set
WrappersMatchFlags ==
    /\ includes(rendered.content, "strong")
          <=> (node.isBold \/ node.isKeywordHighlight)
    /\ includes(rendered.content, "em") <=> node.isItalic
    /\ includes(rendered.content, "s") <=> node.isStrikethrough

\* C13 as stated: strikethrough innermost, italic around it, bold outermost
C13_BoldOutermost ==
    renderedInline =>
        /\ WrappersMatchFlags
        /\ Around(rendered.content, "em", "s")
        /\ Around(rendered.content, "strong", "em")
        /\ Around(rendered.content, "strong", "s")

\* C13 (amended): for every combination of style flags of a node rendered as
\* a span or a link, the bold wrapper is innermost, the italic wrapper is
\* around it and the strikethrough wrapper is outermost; a wrapper is
\* present exactly when its flag is set
C13_BoldInnermost ==
    renderedInline =>
        /\ WrappersMatchFlags
        /\ Around(rendered.content, "em", "strong")
        /\ Around(rendered.content, "s", "em")
        /\ Around(rendered.content, "s", "strong")

C13_Witness ==
    /\ renderedInline
    /\ node.isBold /\ node.isItalic /\ node.isStrikethrough
    /\ rendered.content = <<"s", "em", "strong", "#text">>

\* C14: an <a> element is emitted only for a url that is present, has a
\* supported scheme and is not deceptive; a node whose url fails one of the
\* three is rendered as a span with its style wrappers and no href
C14_HyperlinkOnlyIfSafe ==
    hasRendered =>
        /\ \A el \in elementsOf(rendered) :
              el.tag = "a" =>
                  /\ el.href # <<>>
                  /\ supportedProtocol(el.href)
                  /\ ~isLinkSneaky(el.href)
        /\ (/\ ~node.isSpoiler
            /\ node.url # <<>>
            /\ ~supportedProtocol(node.url) \/ isLinkSneaky(node.url))
           => /\ rendered.tag \in {"span", "pre"}
              /\ rendered.href = <<>>
              /\ rendered.tag = "span" => WrappersMatchFlags
              /\ rendered.tag = "pre"
                    => (/\ node.isMonospace
                        /\ includes(node.text, "\n")
                        /\ renderLocation = "Timeline")

C14_Witness ==
    /\ hasRendered
    /\ node.url = <<"h", "x">>
    /\ node.isBold
    /\ rendered.tag = "span"
    /\ rendered.content = <<"strong", "#text">>

\* C15: a monospace node is rendered as a code block exactly when its text
\* holds a line break and the render location is Timeline; otherwise it is
\* rendered inline with the monospace class; no block is ever emitted in
\* another render location, nor for a node that is not monospace
C15_CodeBlockIffTimeline ==
    hasRendered =>
        /\ (~node.isSpoiler /\ node.isMonospace) =>
              /\ rendered.tag = "pre"
                    <=> (includes(node.text, "\n") /\ renderLocation = "Timeline")
              /\ rendered.tag # "pre" =>
                    /\ rendered.tag \in {"span", "a"}
                    /\ "monospace" \in rendered.className
        /\ (~node.isSpoiler /\ ~node.isMonospace) => rendered.tag # "pre"
        /\ \A el \in elementsOf(rendered) :
              el.tag = "pre" => renderLocation = "Timeline"

C15_Witness ==
    /\ hasRendered
    /\ node.isMonospace
    /\ node.text = <<"c", "\n", "v">>
    /\ renderLocation = "Timeline"
    /\ rendered.tag = "pre"

\* C16: when the first line of a code block, trimmed and lower-cased, is a
\* known language, the block carries that language and its body is the text
\* after the first line break; otherwise it carries no language, its body is
\* the whole text and automatic detection is used
C16_LanguageSniffing ==
    (hasRendered /\ ~node.isSpoiler /\ rendered.tag = "pre") =>
        LET firstNewline == indexOf(node.text, "\n")
            firstLine == toLowerCase(trim(slice(node.text, 0, firstNewline)))
        IN IF firstLine \in KNOWN_LANGUAGES
           THEN /\ rendered.lang = firstLine
                /\ rendered.html.code
                      = slice(node.text, firstNewline + 1, Len(node.text))
           ELSE /\ rendered.lang = <<>>
                /\ rendered.html.code = node.text
                /\ rendered.html.call = "highlightAuto"

C16_Witness ==
    /\ hasRendered
    /\ node.text = <<" ", "C", "\n", "v">>
    /\ rendered.tag = "pre"
    /\ rendered.lang = <<"c">>
    /\ rendered.html = [call |-> "highlight", language |-> <<"c">>,
                        code |-> <<"v">>]

\* the element el of the spoiler node n is masked exactly when the reveal
\* map does not hold TRUE for n's spoiler id, and revealed otherwise
OutcomeAsMapSays(n, el) ==
    /\ "spoiler" \in el.className <=> ~isSpoilerExpanded[n.spoilerId]
    /\ "spoiler--revealed" \in el.className <=> isSpoilerExpanded[n.spoilerId]

\* C17 (state part): every spoiler node, nested ones included, renders
\* masked unless the reveal map holds TRUE for its spoiler id, whatever the
\* render location and disableLinks
SpoilerOutcome ==
    (hasRendered /\ node.isSpoiler) =>
        /\ OutcomeAsMapSays(node, rendered)
        /\ \A i \in DOMAIN node.spoilerChildren :
              node.spoilerChildren[i].isSpoiler
                 => OutcomeAsMapSays(node.spoilerChildren[i], rendered.children[i])

\* C17: a spoiler node renders masked unless the caller's reveal map holds
\* TRUE for its spoiler id, the outcome being determined by the node and the
\* map; neither rendering nor a click on a masked spoiler changes the map
\* that was passed in
C17_SpoilerMaskedByMap ==
    /\ []SpoilerOutcome
    /\ [][isSpoilerExpanded' = isSpoilerExpanded]_vars

C17_Witness ==
    /\ pc = "clicked"
    /\ node.isSpoiler
    /\ node.spoilerId = 2
    /\ "spoiler" \in rendered.className
    /\ isSpoilerExpanded[0]
    /\ ~isSpoilerExpanded[2]
    /\ expandRequest[2]

(***************************************************************************)
(* The renderer run again on the same props: the useMemo callback is       *)
(* executed once more (a new mount, or a cache that was dropped)           *)
(***************************************************************************)
Rerender ==
    /\ pc = "done"
    /\ runs + 1 < MaxRuns
    /\ runs' = runs + 1
    /\ previousNodes' = finalNodes
    /\ inserted' = <<>>
    /\ lastCall' = noCall
    /\ pc' = "props"
    /\ UNCHANGED <<messageText, originalMessageText, textLength, bodyRanges,
                   disableLinks, links, sortedRanges, idx, spoilerCount, tree,
                   nodes, finalNodes>>
    /\ UNCHANGED <<renderVars, stickerVars>>

\* the ranges of the repeated runs: formatting ranges, spoilers among them,
\* and one mention
TwiceRanges ==
    {r \in WellFormedRanges : isFormatting(r) \/ (r.start = 0 /\ r.length = 1)}

InitTwice == InitProps(SeqsUpTo(TwiceRanges, MaxRanges))

SpecTwice == InitTwice /\ [][Next \/ Rerender]_vars

\* C18: a run of the pipeline on the same text, textLength, ranges and
\* disableLinks as the run before it yields the same display nodes, spoiler
\* ids included
C18_Deterministic ==
    (pc = "done" /\ runs > 0) => finalNodes = previousNodes

C18_Witness ==
    /\ pc = "done"
    /\ runs > 0
    /\ \E i, j \in DOMAIN finalNodes :
          /\ finalNodes[i].isSpoiler /\ finalNodes[i].spoilerId = 1
          /\ finalNodes[j].isSpoiler /\ finalNodes[j].spoilerId = 2

\* the spoiler ranges among the ranges the reduce has gone through
spoilersSeen ==
    SelectSeq(SubSeq(sortedRanges, 1, idx - 1), LAMBDA r : isSpoilerStyle(r))

\* the spoiler ranges handed to insertRange
spoilersInserted == SelectSeq(inserted, LAMBDA r : isSpoilerStyle(r))

\* C19: the k-th spoiler range in encounter order is handed to insertRange
\* with spoiler id k (ids start at 1, increase by 1, are pairwise distinct);
\* no other range carries a spoiler id
C19_SpoilerIdsSequential ==
    pc \in {"reduce", "done"} =>
        /\ Len(spoilersInserted) = Len(spoilersSeen)
        /\ \A k \in DOMAIN spoilersInserted :
              /\ spoilersInserted[k].spoilerId = k
              /\ spoilersInserted[k].start = spoilersSeen[k].start
              /\ spoilersInserted[k].length = spoilersSeen[k].length
        /\ \A i \in DOMAIN inserted :
              ~isSpoilerStyle(inserted[i]) => inserted[i].spoilerId = 0
        /\ \A n \in AllNodes(tree) :
              isSpoilerStyle(n) =>
                  \E k \in DOMAIN spoilersInserted :
                      /\ n.spoilerId = k
                      /\ n.start = spoilersInserted[k].start
                      /\ n.length = spoilersInserted[k].length

C19_Witness ==
    /\ pc = "done"
    /\ Len(spoilersInserted) = 2
    /\ spoilersInserted[1].spoilerId = 1
    /\ spoilersInserted[2].spoilerId = 2
    /\ \E n \in AllNodes(tree) : isSpoilerStyle(n) /\ n.spoilerId = 2

\* node i of ns takes part in no merge: it is not a spoiler, or a spoiler
\* without an adjacent spoiler neighbour
Untouched(ns, i) ==
    /\ i > 1 => ~Touching(ns[i - 1], ns[i])
    /\ i < Len(ns) => ~Touching(ns[i], ns[i + 1])

\* the number of merges among the first i nodes of ns
MergesBefore(ns, i) ==
    Cardinality({k \in 1..(i - 1) : Touching(ns[k], ns[k + 1])})

\* the offsets covered by the nodes of ns
Covered(ns) == UNION {ns[i].start..(End(ns[i]) - 1) : i \in DOMAIN ns}

\* C20: every node that takes part in no merge is passed through unchanged,
\* at the position that keeps the relative order; the merge changes neither
\* the offsets covered nor the text of the nodes taken together
C20_MergeFrame ==
    pc = "grouped" =>
        /\ Len(finalNodes) = Len(nodes) - MergesBefore(nodes, Len(nodes))
        /\ \A i \in DOMAIN nodes :
              Untouched(nodes, i)
                 => finalNodes[i - MergesBefore(nodes, i)] = nodes[i]
        /\ Covered(finalNodes) = Covered(nodes)
        /\ joinTexts(finalNodes) = joinTexts(nodes)

C20_Witness ==
    /\ pc = "grouped"
    /\ Len(nodes) = 3
    /\ Touching(nodes[1], nodes[2])
    /\ nodes[3].isSpoiler
    /\ ~Touching(nodes[2], nodes[3])
    /\ Len(finalNodes) = 2
    /\ finalNodes[2] = nodes[3]

\* the elements of a render result that carry text: spans, links and code
\* blocks that are not the wrapper of a spoiler
textElements(el) ==
    {e \in elementsOf(el) :
        "spoiler" \notin e.className /\ "spoiler--revealed" \notin e.className}

\* C21: while the reveal map holds TRUE for the spoiler id of a spoiler
\* group, no element inside the group is masked or invisible; while it does
\* not, the group is masked and every text element inside it is invisible
\* and none is revealed
C21_UnifiedReveal ==
    (hasRendered /\ node.isSpoiler) =>
        IF isSpoilerExpanded[node.spoilerId]
        THEN \A el \in elementsOf(rendered) :
                "spoiler" \notin el.className /\ "invisible" \notin el.className
        ELSE /\ "spoiler" \in rendered.className
             /\ \A el \in elementsOf(rendered) :
                   "spoiler--revealed" \notin el.className
             /\ \A el \in textElements(rendered) : "invisible" \in el.className

\* C22: the map handed to onExpandSpoiler is the reveal map passed in with
\* the entry of one masked spoiler's id set to TRUE and every other entry as
\* it was (so no entry turns FALSE); nothing is emitted when links are
\* disabled, nor before a masked spoiler is activated
C22_CopyOnWrite ==
    /\ pc = "clicked" =>
          /\ ~disableLinks
          /\ \E n \in AllDisplayNodes(<<node>>) :
                /\ n.isSpoiler
                /\ ~isSpoilerExpanded[n.spoilerId]
                /\ expandRequest = [k \in DOMAIN isSpoilerExpanded |->
                                       k = n.spoilerId \/ isSpoilerExpanded[k]]
    /\ pc # "clicked" => expandRequest = <<>>

C22_Witness ==
    /\ pc = "clicked"
    /\ node.spoilerId = 2
    /\ ~isSpoilerExpanded[0]
    /\ isSpoilerExpanded[1]
    /\ ~isSpoilerExpanded[2]
    /\ ~expandRequest[0]
    /\ expandRequest[1]
    /\ expandRequest[2]

\* the caller's array and its range objects right after a step are what
\* they were before it
InputsKept == bodyRanges' = bodyRanges

MaxTagId == 10       \* largest Risibank id a title is built from
MaxNameParts == 4    \* most pieces a collection or sticker name is made of
MaxTagPacks == 2     \* most packs of the collection a title is built for

Digits == <<"0", "1", "2", "3", "4", "5", "6", "7", "8", "9">>

\* the template literal's rendering of a non-negative integer
RECURSIVE digitsOf(_)
digitsOf(n) ==
    IF n < 10 THEN <<Digits[n + 1]>>
    ELSE digitsOf(n \div 10) \o <<Digits[(n % 10) + 1]>>

isDigit(c) == \E d \in DOMAIN Digits : Digits[d] = c

\* Number(match[2]) of a string of decimal digits
RECURSIVE numberOf(_)
numberOf(ds) ==
    IF ds = <<>> THEN 0
    ELSE 10 * numberOf(SubSeq(ds, 1, Len(ds) - 1))
         + (CHOOSE d \in DOMAIN Digits : Digits[d] = ds[Len(ds)]) - 1

makeRbTag(type, id) == <<"[", "r", "b", ":", type>> \o digitsOf(id) \o <<"]">>

\* the length of the run of digits of t that starts at the 1-based index i
RECURSIVE digitRun(_, _)
digitRun(t, i) ==
    IF i <= Len(t) /\ isDigit(t[i]) THEN 1 + digitRun(t, i + 1) ELSE 0

\* RB_TAG_RE matches at the 1-based index i of t: [rb: c or s, digits, ]
tagMatchesAt(t, i) ==
    /\ i + 6 <= Len(t)
    /\ SubSeq(t, i, i + 3) = <<"[", "r", "b", ":">>
    /\ t[i + 4] \in {"c", "s"}
    /\ digitRun(t, i + 5) >= 1
    /\ i + 5 + digitRun(t, i + 5) <= Len(t)
    /\ t[i + 5 + digitRun(t, i + 5)] = "]"

\* RB_TAG_RE.exec(title): the leftmost match and its two groups, or null
RB_TAG_RE_exec(title) ==
    IF \E i \in DOMAIN title : tagMatchesAt(title, i)
    THEN LET i == Min({j \in DOMAIN title : tagMatchesAt(title, j)})
         IN [found |-> TRUE, type |-> title[i + 4],
             digits |-> SubSeq(title, i + 5, i + 4 + digitRun(title, i + 5))]
    ELSE [found |-> FALSE, type |-> "none", digits |-> <<>>]

extractInstalledRbIds(packs) ==
    LET matches == {RB_TAG_RE_exec(packs[k].title) : k \in DOMAIN packs}
        found == {m \in matches : m.found}
    IN [collections |-> {numberOf(m.digits) : m \in {f \in found : f.type = "c"}},
        stickers |-> {numberOf(m.digits) : m \in {f \in found : f.type # "c"}}]

\* the title installRisibankCollection gives pack i (0-based) of totalPacks
collectionPackTitle(name, i, totalPacks, id) ==
    IF totalPacks = 1 THEN name \o <<" ">> \o makeRbTag("c", id)
    ELSE name \o <<" ", "(">> \o digitsOf(i + 1) \o <<"/">>
              \o digitsOf(totalPacks) \o <<")", " ">> \o makeRbTag("c", id)

\* the title installSingleSticker gives its pack; the name is
\* sticker.slug || `Sticker #${sticker.id}`
stickerPackTitle(slug, id) ==
    (IF slug # <<>> THEN slug
     ELSE <<"S", "t", "i", "c", "k", "e", "r", " ", "#">> \o digitsOf(id))
    \o <<" ">> \o makeRbTag("s", id)

RECURSIVE flatten(_)
flatten(parts) ==
    IF parts = <<>> THEN <<>> ELSE Head(parts) \o flatten(Tail(parts))

\* names that Risibank users can give collections and stickers, in pieces
TagNames ==
    {flatten(ps) :
        ps \in SeqsUpTo({<<"n">>, <<"[", "r", "b", ":">>, <<"c">>, <<"s">>,
                         <<"1">>, <<"]">>}, MaxNameParts)}

pipelineIdle ==
    /\ messageText = <<>>
    /\ originalMessageText = <<>>
    /\ textLength = 0
    /\ bodyRanges = <<>>
    /\ disableLinks = FALSE
    /\ links = <<>>
    /\ sortedRanges = <<>>
    /\ idx = 1
    /\ spoilerCount = 0
    /\ tree = <<>>
    /\ inserted = <<>>
    /\ lastCall = noCall
    /\ nodes = <<>>
    /\ finalNodes = <<>>

\* one installed pack: its title is built by the install code from a name,
\* a type and an id, or (type none) it is a pack of another origin
InitTag ==
    /\ \E n \in TagNames, ty \in {"c", "s", "none"}, i \in 0..MaxTagId,
          o \in 1..MaxTagPacks :
          \E p \in 1..o :
             tagged = [name |-> n, type |-> ty,
                       id |-> IF ty = "none" THEN 0 ELSE i,
                       part |-> IF ty = "c" THEN p ELSE 1,
                       of |-> IF ty = "c" THEN o ELSE 1]
    /\ installedPacks =
          <<[title |->
                IF tagged.type = "c"
                THEN collectionPackTitle(tagged.name, tagged.part - 1,
                                         tagged.of, tagged.id)
                ELSE IF tagged.type = "s"
                THEN stickerPackTitle(tagged.name, tagged.id)
                ELSE tagged.name]>>
    /\ classified = [collections |-> {}, stickers |-> {}]
    /\ pc = "packs"
    /\ installingId = Null
    /\ seenInstallingId = Null
    /\ selectedCollection = Null
    /\ collectionMedias = <<>>
    /\ tasks = {}
    /\ uploads = <<>>
    /\ request = <<>>
    /\ installLog = <<>>
    /\ conversion = <<>>
    /\ search = <<>>
    /\ detail = <<>>
    /\ conversation = <<>>
    /\ pipelineIdle
    /\ renderIdle
    /\ memoIdle

\* the useMemo of RisibankCollectionBrowser classifies the installed packs
ExtractInstalled ==
    /\ pc = "packs"
    /\ classified' = extractInstalledRbIds(installedPacks)
    /\ pc' = "classified"
    /\ UNCHANGED <<installedPacks, installingId, seenInstallingId,
                   selectedCollection, collectionMedias, tasks, uploads,
                   request, installLog, conversion, tagged>>
    /\ UNCHANGED <<pipelineVars, renderVars, memoVars, search, detail,
                   conversation>>

SpecTag == InitTag /\ [][ExtractInstalled]_vars

\* the title holds, somewhere, the text of a tag of some type and number
carriesTag(title) ==
    \E i \in DOMAIN title, j \in DOMAIN title :
        /\ i + 6 <= j
        /\ SubSeq(title, i, i + 3) = <<"[", "r", "b", ":">>
        /\ title[i + 4] \in {"c", "s"}
        /\ \A k \in (i + 5)..(j - 1) : isDigit(title[k])
        /\ title[j] = "]"

\* C29: tag round trip. A pack whose title the install code built from a name,
\* a type and an id is classified under exactly that type and id and under no
\* other; a pack whose title carries no tag contributes no id.
C29_TagRoundTrip ==
    pc = "classified" =>
        /\ tagged.type = "c" =>
              classified = [collections |-> {tagged.id}, stickers |-> {}]
        /\ tagged.type = "s" =>
              classified = [collections |-> {}, stickers |-> {tagged.id}]
        /\ ~carriesTag(installedPacks[1].title) =>
              classified = [collections |-> {}, stickers |-> {}]

(***************************************************************************)
(* Sticker browser: convertToWebP, called by uploadOnePack for every url   *)
(***************************************************************************)
MaxChunk == 2        \* most urls of the pack whose images are converted
MaxExcess == 1       \* blob sizes lie this close around MAX_STICKER_BYTES

MAX_STICKER_BYTES == 300 * 1024

\* what canvas.toBlob hands to its callback: null, or a blob of some size
BlobSizes ==
    {Null} \cup ((MAX_STICKER_BYTES - MaxExcess)..(MAX_STICKER_BYTES + MaxExcess))

\* quality > 0.1 in double arithmetic: 0.9 less 0.1 eight times is
\* 0.10000000000000014, which is still above 0.1, so the step of one tenth
\* is taken too and the loop ends at 1.4e-16
qualityAboveFloor(tenths) == tenths >= 1

\* uploadOnePack is called with one to MaxChunk urls
InitConvert ==
    /\ conversion \in {[pc |-> "load", quality |-> 0, size |-> 0,
                          result |-> 0, urls |-> n, stickers |-> <<>>] :
                          n \in 1..MaxChunk}
    /\ pc = "convert"
    /\ installedPacks = <<>>
    /\ installingId = Null
    /\ seenInstallingId = Null
    /\ selectedCollection = Null
    /\ collectionMedias = <<>>
    /\ tasks = {}
    /\ uploads = <<>>
    /\ request = <<>>
    /\ installLog = <<>>
    /\ tagged = <<>>
    /\ classified = <<>>
    /\ search = <<>>
    /\ detail = <<>>
    /\ conversation = <<>>
    /\ pipelineIdle
    /\ renderIdle
    /\ memoIdle

\* await loadImage(url): the image loads and is drawn, or onerror rejects;
\* quality starts at 0.9, counted in tenths
LoadImage ==
    /\ conversion.pc = "load"
    /\ \E loaded \in BOOLEAN :
          conversion' = IF loaded
                        THEN [conversion EXCEPT !.pc = "webp",
                                                !.quality = 9]
                        ELSE [conversion EXCEPT !.pc = "thrown"]
    /\ UNCHANGED <<installedPacks, installingId, seenInstallingId,
                   selectedCollection, collectionMedias, tasks, uploads,
                   request, installLog, tagged, classified, pc>>
    /\ UNCHANGED <<pipelineVars, renderVars, memoVars, search, detail,
                   conversation>>

\* one turn of the while loop: toBlob as WebP at the current quality
ToBlobWebP ==
    /\ conversion.pc = "webp"
    /\ qualityAboveFloor(conversion.quality)
    /\ \E blob \in BlobSizes :
          conversion' = IF blob # Null /\ blob <= MAX_STICKER_BYTES
                        THEN [conversion EXCEPT !.pc = "returned",
                                                !.size = blob, !.result = blob]
                        ELSE [conversion EXCEPT !.size = blob,
                                                !.quality = @ - 1]
    /\ UNCHANGED <<installedPacks, installingId, seenInstallingId,
                   selectedCollection, collectionMedias, tasks, uploads,
                   request, installLog, tagged, classified, pc>>
    /\ UNCHANGED <<pipelineVars, renderVars, memoVars, search, detail,
                   conversation>>

\* the loop has ended: toBlob as PNG, returned if there is a blob at all
ToBlobPng ==
    /\ conversion.pc = "webp"
    /\ ~qualityAboveFloor(conversion.quality)
    /\ \E blob \in BlobSizes :
          conversion' = IF blob # Null
                        THEN [conversion EXCEPT !.pc = "returned",
                                                !.size = blob, !.result = blob]
                        ELSE [conversion EXCEPT !.pc = "thrown", !.size = blob]
    /\ UNCHANGED <<installedPacks, installingId, seenInstallingId,
                   selectedCollection, collectionMedias, tasks, uploads,
                   request, installLog, tagged, classified, pc>>
    /\ UNCHANGED <<pipelineVars, renderVars, memoVars, search, detail,
                   conversation>>

\* uploadOnePack pushes the image and goes on with the next url, if any
PushSticker ==
    /\ conversion.pc = "returned"
    /\ conversion' = [conversion EXCEPT
                         !.stickers = Append(@, conversion.result),
                         !.urls = @ - 1,
                         !.pc = IF conversion.urls > 1 THEN "load"
                                ELSE "manifest"]
    /\ UNCHANGED <<installedPacks, installingId, seenInstallingId,
                   selectedCollection, collectionMedias, tasks, uploads,
                   request, installLog, tagged, classified, pc>>
    /\ UNCHANGED <<pipelineVars, renderVars, memoVars, search, detail,
                   conversation>>

\* every image is converted: the pack is encrypted and handed to putStickers
PutStickers ==
    /\ conversion.pc = "manifest"
    /\ conversion' = [conversion EXCEPT !.pc = "uploaded"]
    /\ UNCHANGED <<installedPacks, installingId, seenInstallingId,
                   selectedCollection, collectionMedias, tasks, uploads,
                   request, installLog, tagged, classified, pc>>
    /\ UNCHANGED <<pipelineVars, renderVars, memoVars, search, detail,
                   conversation>>

SpecConvert == InitConvert /\ [][LoadImage \/ ToBlobWebP \/ ToBlobPng \/ PushSticker \/ PutStickers]_vars

\* C24: every sticker image that convertToWebP returns, and every image of a
\* pack handed to putStickers, is at most 300 KB, the PNG fallback included.
C24_StickerAtMost300KB ==
    /\ conversion.pc = "returned" => conversion.result <= MAX_STICKER_BYTES
    /\ \A k \in DOMAIN conversion.stickers :
          conversion.stickers[k] <= MAX_STICKER_BYTES

(***************************************************************************)
(* Sticker browser: installs started from the grid and the detail view     *)
(***************************************************************************)
MaxMedias == 26      \* most medias of a collection
MaxStickerId == 1    \* sticker ids of the search results are 0..MaxStickerId
MaxRequests == 2     \* most install requests handled in one behaviour

STICKERS_PER_PACK == 25

\* the one collection of the search results, named "n"; the stickers of the results
\* have the ids 0..MaxStickerId, so one of them shares the collection's id
CollectionIds == {0}

\* a variant that rounds the number of packs down
totalPacksFloor(n) == n \div STICKERS_PER_PACK

\* Math.ceil(urls.length / STICKERS_PER_PACK)
totalPacksOf(n) ==
    IF n % STICKERS_PER_PACK = 0 THEN n \div STICKERS_PER_PACK
    ELSE (n \div STICKERS_PER_PACK) + 1

\* urls.slice(i * STICKERS_PER_PACK, (i + 1) * STICKERS_PER_PACK)
chunkOf(urls, i) ==
    slice(urls, i * STICKERS_PER_PACK, (i + 1) * STICKERS_PER_PACK)

isCollectionInstalled(c) ==
    c \in extractInstalledRbIds(installedPacks).collections

isStickerInstalled(s) ==
    s \in extractInstalledRbIds(installedPacks).stickers

\* a variant of the handlers' guard that lets every request through
handlerBlind(seen) == TRUE

\* the handlers' guard, on the installingId their closure holds
handlerIdle(seen) == seen = Null

\* a variant that resets installingId only after a complete install
resetOnSuccess(current, outcome) ==
    IF outcome = "installed" THEN Null ELSE current

\* finally { setInstalling(null) }
finallyInstalling(current, outcome) == Null

\* window.Events.installStickerPack: the pack joins the installed packs
\* that the browser receives as Props.installedPacks
installStickerPack(packs, title) == Append(packs, [title |-> title])

packTitle(t) ==
    IF t.kind = "c"
    THEN collectionPackTitle(<<"n">>, t.next, t.total, t.id)
    ELSE stickerPackTitle(IF t.id = 0 THEN <<>> ELSE <<"n">>, t.id)

\* the browser shows the grid; nothing is installed or being installed
InitInstall ==
    /\ collectionMedias \in [CollectionIds -> 0..MaxMedias]
    /\ installedPacks = <<>>
    /\ installingId = Null
    /\ seenInstallingId = Null
    /\ selectedCollection = Null
    /\ tasks = {}
    /\ uploads = <<>>
    /\ request = [count |-> 0, kind |-> "none", id |-> 0, state |-> Null,
                  accepted |-> FALSE]
    /\ installLog = <<>>
    /\ conversion = <<>>
    /\ tagged = <<>>
    /\ classified = <<>>
    /\ pc = "browser"
    /\ search = <<>>
    /\ detail = <<>>
    /\ conversation = <<>>
    /\ pipelineIdle
    /\ renderIdle
    /\ memoIdle

\* a click on a collection card opens the detail view; the render that
\* follows may or may not take in a pending installingId update
SelectCollection ==
    /\ selectedCollection = Null
    /\ \E c \in CollectionIds : selectedCollection' = c
    /\ seenInstallingId' \in {seenInstallingId, installingId}
    /\ UNCHANGED <<installedPacks, installingId, tasks, uploads, request,
                   installLog>>
    /\ UNCHANGED <<collectionMedias, conversion, tagged, classified, pc>>
    /\ UNCHANGED <<pipelineVars, renderVars, memoVars, search, detail,
                   conversation>>

\* onBack of the detail view
Back ==
    /\ selectedCollection # Null
    /\ selectedCollection' = Null
    /\ seenInstallingId' \in {seenInstallingId, installingId}
    /\ UNCHANGED <<installedPacks, installingId, tasks, uploads, request,
                   installLog>>
    /\ UNCHANGED <<collectionMedias, conversion, tagged, classified, pc>>
    /\ UNCHANGED <<pipelineVars, renderVars, memoVars, search, detail,
                   conversation>>

\* React renders the installingId update that a settled install left pending
RenderPending ==
    /\ seenInstallingId # installingId
    /\ seenInstallingId' = installingId
    /\ UNCHANGED <<installedPacks, installingId, selectedCollection, tasks,
                   uploads, request, installLog>>
    /\ UNCHANGED <<collectionMedias, conversion, tagged, classified, pc>>
    /\ UNCHANGED <<pipelineVars, renderVars, memoVars, search, detail,
                   conversation>>

\* the handler ran: the request is recorded and, unless it returned early,
\* the install function runs up to its first await, inside the click event,
\* at whose end React renders the new installingId
handle(kind, id, urls) ==
    LET call == request.count + 1
        accepted == handlerIdle(seenInstallingId)
        total == IF kind = "c" THEN totalPacksOf(Len(urls)) ELSE 1
        empty == kind = "c" /\ Len(urls) = 0
    IN /\ request' = [count |-> call, kind |-> kind, id |-> id,
                      state |-> installingId, accepted |-> accepted]
       /\ IF ~accepted
          THEN UNCHANGED <<installingId, seenInstallingId, tasks, installLog>>
          ELSE IF empty \/ total = 0
          THEN /\ installingId' =
                     finallyInstalling(id, IF empty THEN "empty" ELSE "installed")
               /\ seenInstallingId' = installingId'
               /\ installLog' =
                     Append(installLog,
                            [call |-> call, kind |-> kind, id |-> id,
                             outcome |-> IF empty THEN "empty" ELSE "installed",
                             logged |-> empty, rejected |-> FALSE])
               /\ UNCHANGED tasks
          ELSE /\ installingId' = id
               /\ seenInstallingId' = id
               /\ tasks' = tasks \cup
                     {[call |-> call, kind |-> kind, id |-> id, urls |-> urls,
                       total |-> total, next |-> 0, pc |-> "upload"]}
               /\ UNCHANGED installLog
       /\ UNCHANGED <<installedPacks, selectedCollection, uploads>>

\* a click on the install button of the detail view, which is disabled for
\* an installed collection, during an install and for no medias; the urls
\* are medias.map(m => m.cache_url), in API order: handleInstallCollection
ClickInstallCollection ==
    /\ request.count < MaxRequests
    /\ selectedCollection # Null
    /\ ~isCollectionInstalled(selectedCollection)
    /\ seenInstallingId = Null
    /\ collectionMedias[selectedCollection] # 0
    /\ handle("c", selectedCollection,
              [k \in 1..collectionMedias[selectedCollection] |-> k])
    /\ UNCHANGED <<collectionMedias, conversion, tagged, classified, pc>>
    /\ UNCHANGED <<pipelineVars, renderVars, memoVars, search, detail,
                   conversation>>

\* a click on a sticker card that is not installed: handleInstallSticker
ClickSticker ==
    /\ request.count < MaxRequests
    /\ selectedCollection = Null
    /\ \E s \in 0..MaxStickerId :
          /\ ~isStickerInstalled(s)
          /\ handle("s", s, <<s>>)
    /\ UNCHANGED <<collectionMedias, conversion, tagged, classified, pc>>
    /\ UNCHANGED <<pipelineVars, renderVars, memoVars, search, detail,
                   conversation>>

\* the install call returns: its outcome is logged, installingId is reset
return(t, outcome) ==
    /\ tasks' = tasks \ {t}
    /\ installingId' = finallyInstalling(installingId, outcome)
    /\ installLog' = Append(installLog,
                            [call |-> t.call, kind |-> t.kind, id |-> t.id,
                             outcome |-> outcome,
                             logged |-> outcome # "installed",
                             rejected |-> FALSE])

\* uploadOnePack up to putStickers: the images are converted and uploaded,
\* or a conversion or the upload fails
PutPack ==
    /\ \E t \in tasks, outcome \in {"uploaded", "convertFailed", "uploadFailed"} :
          /\ t.pc = "upload"
          /\ IF outcome = "uploaded"
             THEN /\ uploads' = Append(uploads,
                                       [call |-> t.call, kind |-> t.kind,
                                        title |-> packTitle(t),
                                        stickers |-> chunkOf(t.urls, t.next)])
                  /\ tasks' = (tasks \ {t}) \cup {[t EXCEPT !.pc = "install"]}
                  /\ UNCHANGED <<installingId, installLog>>
             ELSE /\ return(t, outcome)
                  /\ UNCHANGED uploads
    /\ UNCHANGED <<installedPacks, seenInstallingId, selectedCollection, request>>
    /\ UNCHANGED <<collectionMedias, conversion, tagged, classified, pc>>
    /\ UNCHANGED <<pipelineVars, renderVars, memoVars, search, detail,
                   conversation>>

\* window.Events.installStickerPack settles; after the last pack the install
\* call returns, after any other the loop goes on with the next pack
InstallPack ==
    /\ \E t \in tasks, installed \in BOOLEAN :
          /\ t.pc = "install"
          /\ IF ~installed
             THEN /\ return(t, "installFailed")
                  /\ UNCHANGED installedPacks
             ELSE /\ installedPacks' =
                         installStickerPack(installedPacks, packTitle(t))
                  /\ IF t.next + 1 < t.total
                     THEN /\ tasks' = (tasks \ {t}) \cup
                                 {[t EXCEPT !.pc = "upload", !.next = @ + 1]}
                          /\ UNCHANGED <<installingId, installLog>>
                     ELSE return(t, "installed")
    /\ UNCHANGED <<seenInstallingId, selectedCollection, uploads, request>>
    /\ UNCHANGED <<collectionMedias, conversion, tagged, classified, pc>>
    /\ UNCHANGED <<pipelineVars, renderVars, memoVars, search, detail,
                   conversation>>

SpecInstall == InitInstall /\ [][SelectCollection \/ Back \/ RenderPending \/ ClickInstallCollection \/ ClickSticker \/ PutPack \/ InstallPack]_vars

\* awaited operations settle, and React renders a pending state update
SpecInstallFair ==
    SpecInstall /\ WF_vars(PutPack \/ InstallPack) /\ WF_vars(RenderPending)

\* the packs that install call k has handed to putStickers, in upload order
callPacks(k) == SelectSeq(uploads, LAMBDA u : u.call = k)

callStickers(k) ==
    LET packs == callPacks(k)
    IN flatten([i \in DOMAIN packs |-> packs[i].stickers])

callInstalled(k) ==
    \E e \in DOMAIN installLog :
        installLog[e].call = k /\ installLog[e].outcome = "installed"

\* C25: a collection install uploads its packs one after another in index
\* order; every pack holds 1 to 25 stickers, the packs concatenated in upload
\* order are the medias in API order, and a complete install of n >= 1 medias
\* has uploaded ceil(n / 25) packs, the last media lying in the last pack.
C25_PacksPartitionMedias ==
    \A k \in 1..request.count :
        LET packs == callPacks(k)
            all == callStickers(k)
            n == collectionMedias[0]
        IN (packs # <<>> /\ packs[1].kind = "c") =>
              /\ \A i \in DOMAIN packs :
                    Len(packs[i].stickers) \in 1..STICKERS_PER_PACK
              /\ all = [j \in 1..Len(all) |-> j]
              /\ Len(all) <= n
              /\ \A t \in tasks :
                    t.call = k =>
                       Len(packs) = t.next + (IF t.pc = "install" THEN 1 ELSE 0)
              /\ callInstalled(k) =>
                    /\ Len(all) = n
                    /\ STICKERS_PER_PACK * (Len(packs) - 1) < n
                    /\ n <= STICKERS_PER_PACK * Len(packs)
                    /\ packs[Len(packs)].stickers[Len(packs[Len(packs)].stickers)] = n

C25_Witness ==
    /\ callInstalled(1)
    /\ Len(callPacks(1)) >= 2
    /\ callPacks(1)[1].kind = "c"
    /\ collectionMedias[0] % STICKERS_PER_PACK # 0

\* C26: at most one install is in progress at any time, and a request
\* handled while installingId is non-null starts nothing.
C26_OneInstallAtATime ==
    /\ Cardinality(tasks) <= 1
    /\ request.state # Null => ~request.accepted
    /\ tasks # {} => installingId # Null

C26_Witness ==
    /\ request.count = 2
    /\ request.state # Null
    /\ ~request.accepted
    /\ \E t \in tasks : t.call = 1 /\ t.pc = "install"

\* C27: every started install ends with installingId back at null, on
\* success and on every failure; failures are logged and the call never
\* rejects, and the render that disables the buttons does not last forever.
C27_InstallSettles ==
    /\ [](tasks = {} => installingId = Null)
    /\ [](\A e \in DOMAIN installLog :
             /\ ~installLog[e].rejected
             /\ installLog[e].outcome # "installed" => installLog[e].logged)
    /\ (tasks # {}) ~> (tasks = {} /\ installingId = Null)
    /\ (seenInstallingId # Null) ~> (seenInstallingId = Null)

C27_Witness ==
    /\ installLog # <<>>
    /\ installLog[Len(installLog)].outcome \in
          {"convertFailed", "uploadFailed", "installFailed"}
    /\ installLog[Len(installLog)].kind = "c"
    /\ uploads # <<>>
    /\ tasks = {}
    /\ installingId = Null

\* every pack of the collection is among the installed packs
allPacksInstalled(c) ==
    LET total == totalPacksOf(collectionMedias[c])
    IN \A i \in 0..(total - 1) :
          \E k \in DOMAIN installedPacks :
             installedPacks[k].title =
                collectionPackTitle(<<"n">>, i, total, c)

\* C28: a collection is reported as installed only if every one of its
\* packs has been uploaded and installed.
C28_InstalledMeansAllPacks ==
    \A c \in CollectionIds : isCollectionInstalled(c) => allPacksInstalled(c)

\* what the last render shows
stickerShowsInstalling(s) ==
    /\ selectedCollection = Null
    /\ ~isStickerInstalled(s)
    /\ seenInstallingId = s

collectionShowsInstalling(c) ==
    /\ selectedCollection = c
    /\ ~isCollectionInstalled(c)
    /\ seenInstallingId = c

running(kind, id) == \E t \in tasks : t.kind = kind /\ t.id = id

\* C30: the Installing indicator is shown only on the item being installed:
\* on a sticker card only while that sticker's install runs, on a
\* collection's button only while that collection's install runs (a render
\* that is still pending after the install returned apart).
C30_IndicatorOnInstalledItem ==
    /\ \A s \in 0..MaxStickerId :
          stickerShowsInstalling(s) =>
             running("s", s) \/ seenInstallingId # installingId
    /\ \A c \in CollectionIds :
          collectionShowsInstalling(c) =>
             running("c", c) \/ seenInstallingId # installingId

(***************************************************************************)
(* The search of RisibankCollectionBrowser: fetchResults, the debounced    *)
(* handleSearchChange and the cleanup on unmount.  A result list is the    *)
(* sequence holding the search parameter it was returned for, or the empty *)
(* list.  Timers carry the ids setTimeout returned, which start at 1.      *)
(***************************************************************************)
MaxChanges == 2

\* the part of fetchResults(query) before its first await
fetchResults(s, query) ==
    [s EXCEPT !.loading = TRUE,
              !.issued = @ + 1,
              !.requests = @ \cup {[n |-> s.issued + 1, query |-> query,
                                    stage |-> "collections",
                                    collections |-> <<>>]}]

\* a variant that leaves the timer armed
keepTimeout(timers, id) == timers

\* clearTimeout(id): a no-op for an id that is not pending
clearTimeout(timers, id) == {t \in timers : t.id # id}

\* the browser is mounted and its mount effect has called fetchResults('')
InitSearch ==
    /\ search = fetchResults(
          [mounted |-> TRUE, searchQuery |-> <<>>, collections |-> <<>>,
           stickers |-> <<>>, loading |-> FALSE, debounceRef |-> Null,
           timers |-> {}, nextTimer |-> 1, requests |-> {}, issued |-> 0,
           lastReturned |-> <<>>, bursts |-> <<>>, fired |-> <<>>,
           lateFetch |-> FALSE], <<>>)
    /\ detail = <<>>
    /\ conversation = <<>>
    /\ pc = "search"
    /\ installedPacks = <<>>
    /\ installingId = Null
    /\ seenInstallingId = Null
    /\ selectedCollection = Null
    /\ collectionMedias = <<>>
    /\ tasks = {}
    /\ uploads = <<>>
    /\ request = <<>>
    /\ installLog = <<>>
    /\ conversion = <<>>
    /\ tagged = <<>>
    /\ classified = <<>>
    /\ pipelineIdle
    /\ renderIdle
    /\ memoIdle

\* handleSearchChange: the input's value changes (MaxChanges times at most)
handleSearchChange ==
    /\ search.mounted
    /\ search.nextTimer <= MaxChanges
    /\ \E value \in {<<>>, <<" ">>, <<"a">>, <<"a", " ">>, <<"b">>} :
          search' =
             [search EXCEPT
                !.searchQuery = value,
                !.timers =
                   (IF search.debounceRef # Null
                    THEN clearTimeout(search.timers, search.debounceRef)
                    ELSE search.timers)
                   \cup {[id |-> search.nextTimer, value |-> value]},
                !.debounceRef = search.nextTimer,
                !.nextTimer = @ + 1,
                !.bursts = IF search.timers # {}
                           THEN [@ EXCEPT ![Len(@)] = value]
                           ELSE Append(@, value)]
    /\ UNCHANGED <<detail, conversation, pc, installedPacks, installingId,
                   seenInstallingId, selectedCollection, collectionMedias,
                   tasks, uploads, request, installLog, conversion, tagged,
                   classified>>
    /\ UNCHANGED <<pipelineVars, renderVars, memoVars>>

\* a pending debounce timer fires: its callback calls fetchResults(value)
TimerFires ==
    /\ \E t \in search.timers :
          search' =
             [fetchResults(search, t.value) EXCEPT
                !.timers = @ \ {t},
                !.fired = Append(@, t.value),
                !.lateFetch = @ \/ ~search.mounted]
    /\ UNCHANGED <<detail, conversation, pc, installedPacks, installingId,
                   seenInstallingId, selectedCollection, collectionMedias,
                   tasks, uploads, request, installLog, conversion, tagged,
                   classified>>
    /\ UNCHANGED <<pipelineVars, renderVars, memoVars>>

\* an awaited fetch of a fetchResults call settles: its response is ok, is
\* not ok, or the fetch (or the reading of its body) throws.  The state
\* setters of an unmounted component do nothing.
FetchSettles ==
    /\ \E r \in search.requests, outcome \in {"ok", "failed", "thrown"} :
          LET param == trim(r.query)
              got == IF outcome = "ok" THEN <<param>> ELSE <<>>
              finally(coll, stick) ==
                 [search EXCEPT
                    !.collections = IF search.mounted THEN coll ELSE @,
                    !.stickers = IF search.mounted THEN stick ELSE @,
                    !.loading = IF search.mounted THEN FALSE ELSE @,
                    !.requests = @ \ {r},
                    !.lastReturned = IF r.n = search.issued
                                     THEN <<coll, stick>> ELSE @]
          IN  search' =
                 IF outcome = "thrown" THEN finally(<<>>, <<>>)
                 ELSE IF r.stage = "stickers"
                      THEN finally(search.collections, got)
                 ELSE IF param = <<>> THEN finally(got, <<>>)
                 ELSE [search EXCEPT
                         !.collections = IF search.mounted THEN got ELSE @,
                         !.requests =
                            (@ \ {r}) \cup
                            {[r EXCEPT !.stage = "stickers",
                                       !.collections = got]}]
    /\ UNCHANGED <<detail, conversation, pc, installedPacks, installingId,
                   seenInstallingId, selectedCollection, collectionMedias,
                   tasks, uploads, request, installLog, conversion, tagged,
                   classified>>
    /\ UNCHANGED <<pipelineVars, renderVars, memoVars>>

\* the browser is unmounted: the cleanup of its last effect runs
UnmountBrowser ==
    /\ search.mounted
    /\ search' =
          [search EXCEPT
             !.mounted = FALSE,
             !.timers = IF search.debounceRef # Null
                        THEN clearTimeout(search.timers, search.debounceRef)
                        ELSE search.timers]
    /\ UNCHANGED <<detail, conversation, pc, installedPacks, installingId,
                   seenInstallingId, selectedCollection, collectionMedias,
                   tasks, uploads, request, installLog, conversion, tagged,
                   classified>>
    /\ UNCHANGED <<pipelineVars, renderVars, memoVars>>

SpecSearch ==
    InitSearch /\ [][handleSearchChange \/ TimerFires \/ FetchSettles \/ UnmountBrowser]_vars

\* C31: search results are never stale: once every issued search request has
\* completed, the displayed collections and stickers are those returned for
\* the request issued last, and loading is false only when no request is in
\* flight, whatever the order in which the responses arrive.
C31_NeverStale ==
    search.mounted =>
       /\ search.requests = {} =>
             <<search.collections, search.stickers>> = search.lastReturned
       /\ ~search.loading => search.requests = {}

\* C32: at most one debounce timer is pending, and it is the one armed by the
\* last change, for the last value; a burst of changes (changes made while a
\* timer is pending) starts exactly one fetch, for the last value of the
\* burst; after the unmount no timer is pending and no fetch starts.
C32_Debounce ==
    /\ Cardinality(search.timers) <= 1
    /\ \A t \in search.timers :
          t.id = search.debounceRef /\ t.value = search.searchQuery
    /\ Len(search.fired) <= Len(search.bursts)
    /\ \A k \in DOMAIN search.fired : search.fired[k] = search.bursts[k]
    /\ search.mounted =>
          Len(search.fired) + Cardinality(search.timers) = Len(search.bursts)
    /\ ~search.mounted => search.timers = {} /\ ~search.lateFetch

\* a burst of two changes has started one fetch, for its last value
C32_Witness ==
    /\ search.debounceRef = 2
    /\ search.timers = {}
    /\ search.bursts = <<<<"b">>>>
    /\ search.fired = <<<<"b">>>>

(***************************************************************************)
(* CollectionDetail: the effect that fetches the collection's medias and   *)
(* its cleanup.  medias is <<"null">> before the first response, the empty *)
(* list, or the list <<field, id>> read from field of the response for     *)
(* collection id.  Every instance of the component has its own state.      *)
(***************************************************************************)
MaxEffects == 3

\* a variant that applies the response whatever cancelled holds
appliesAlways(r) == TRUE

\* if (!cancelled) of the effect's closure
applies(r) == ~r.cancelled

\* CollectionDetail is not mounted
InitDetail ==
    /\ detail = [collection |-> Null, instance |-> 0, medias |-> <<"null">>,
                 loadingDetail |-> TRUE, effects |-> 0, requests |-> {},
                 dropped |-> 0]
    /\ search = <<>>
    /\ conversation = <<>>
    /\ pc = "detail"
    /\ installedPacks = <<>>
    /\ installingId = Null
    /\ seenInstallingId = Null
    /\ selectedCollection = Null
    /\ collectionMedias = <<>>
    /\ tasks = {}
    /\ uploads = <<>>
    /\ request = <<>>
    /\ installLog = <<>>
    /\ conversion = <<>>
    /\ tagged = <<>>
    /\ classified = <<>>
    /\ pipelineIdle
    /\ renderIdle
    /\ memoIdle

\* the effect runs: on the mount of a new instance, or when collection.id
\* has changed, after the cleanup of the effect's previous run
EffectRuns ==
    /\ detail.effects < MaxEffects
    /\ \E id \in 0..1 :
          /\ id # detail.collection
          /\ detail' =
                [detail EXCEPT
                   !.collection = id,
                   !.instance = IF detail.collection = Null THEN @ + 1 ELSE @,
                   !.medias = IF detail.collection = Null
                              THEN <<"null">> ELSE @,
                   !.loadingDetail = TRUE,
                   !.effects = @ + 1,
                   !.requests =
                      {[r EXCEPT !.cancelled = @ \/ r.n = detail.effects] :
                          r \in @}
                      \cup {[n |-> detail.effects + 1, id |-> id,
                             instance |-> IF detail.collection = Null
                                          THEN detail.instance + 1
                                          ELSE detail.instance,
                             cancelled |-> FALSE]}]
    /\ UNCHANGED <<search, conversation, pc, installedPacks, installingId,
                   seenInstallingId, selectedCollection, collectionMedias,
                   tasks, uploads, request, installLog, conversion, tagged,
                   classified>>
    /\ UNCHANGED <<pipelineVars, renderVars, memoVars>>

\* CollectionDetail is unmounted: the cleanup of its effect runs
UnmountDetail ==
    /\ detail.collection # Null
    /\ detail' =
          [detail EXCEPT
             !.collection = Null,
             !.requests =
                {[r EXCEPT !.cancelled = @ \/ r.n = detail.effects] : r \in @}]
    /\ UNCHANGED <<search, conversation, pc, installedPacks, installingId,
                   seenInstallingId, selectedCollection, collectionMedias,
                   tasks, uploads, request, installLog, conversion, tagged,
                   classified>>
    /\ UNCHANGED <<pipelineVars, renderVars, memoVars>>

\* the request of an effect settles: the response holds medias, holds only
\* preview_medias, holds neither, or the request fails (not ok, or thrown).
\* The state setters of an unmounted instance do nothing.
DetailSettles ==
    /\ \E r \in detail.requests,
          outcome \in {"medias", "preview_medias", "neither", "failed"} :
          LET live == detail.collection # Null /\ r.instance = detail.instance
              got == IF outcome \in {"medias", "preview_medias"}
                     THEN <<outcome, r.id>> ELSE <<>>
          IN  detail' =
                 [detail EXCEPT
                    !.medias = IF applies(r) /\ live THEN got ELSE @,
                    !.loadingDetail = IF applies(r) /\ live THEN FALSE ELSE @,
                    !.requests = @ \ {r},
                    !.dropped = IF r.cancelled THEN 1 ELSE @]
    /\ UNCHANGED <<search, conversation, pc, installedPacks, installingId,
                   seenInstallingId, selectedCollection, collectionMedias,
                   tasks, uploads, request, installLog, conversion, tagged,
                   classified>>
    /\ UNCHANGED <<pipelineVars, renderVars, memoVars>>

SpecDetail == InitDetail /\ [][EffectRuns \/ UnmountDetail \/ DetailSettles]_vars

\* a request that is in flight and was not started by the effect's last run
\* for the mounted collection
staleRequest(r) ==
    \/ detail.collection = Null
    \/ r.n # detail.effects

\* C33: the response (success or failure) of a request started for an
\* earlier collection, or before the unmount, sets neither medias nor
\* loadingDetail.
C33_NoStaleResponse ==
    [][\A r \in detail.requests :
          (staleRequest(r) /\ r \notin detail'.requests) =>
             /\ detail'.medias = detail.medias
             /\ detail'.loadingDetail = detail.loadingDetail]_vars

\* the response for the previous collection has arrived while the request
\* for the present one is in flight
C33_Witness ==
    /\ detail.dropped = 1
    /\ detail.collection # Null
    /\ detail.instance = 1
    /\ detail.effects = 2
    /\ detail.loadingDetail
    /\ detail.medias = <<"null">>
    /\ Cardinality(detail.requests) = 1

(***************************************************************************)
(* ConversationView: the drag counter and the drop overlay, and the        *)
(* forwarding of dropped and pasted files to processAttachments.  A MIME   *)
(* type is the pair of its parts before and after the slash.  A handler's  *)
(* event, the counter before it and the calls it made are kept as history. *)
(***************************************************************************)
MaxDrag == 3

MaxFiles == 2

MaxItems == 2

\* getAsFile(item): an empty list for null, else the list of the one file.
\* item.file is what item.getAsFile() returns, as such a list: null for an
\* item that is not of kind file, and for a file item whose data Chromium
\* cannot read.  A PNG with Chromium's default name is copied under a
\* suggested name.
getAsFile(item) ==
    IF item.file = <<>> THEN <<>>
    ELSE IF item.file[1].type = <<"image", "png">>
            /\ item.file[1].name = "image.png"
    THEN <<[item.file[1] EXCEPT !.name = "suggested"]>>
    ELSE item.file

\* a variant that counts every drag-enter
carriesAnything(dataTransfer) == TRUE

\* event.dataTransfer?.types?.includes('Files')
carriesFiles(dataTransfer) ==
    /\ dataTransfer.present
    /\ \E i \in DOMAIN dataTransfer.types : dataTransfer.types[i] = "Files"

\* a variant that asks for one image or video only
someVisual(fileItems) ==
    \E i \in DOMAIN fileItems : fileItems[i].type[1] \in {"image", "video"}

\* fileItems.every(item => type === 'image' || type === 'video') on the
\* part of item.type before the slash
allVisual(fileItems) ==
    \A i \in DOMAIN fileItems : fileItems[i].type[1] \in {"image", "video"}

\* ConversationView is mounted; hasOpenModal and hasOpenPanel are its props
InitDrag ==
    /\ \E modal \in BOOLEAN, panel \in BOOLEAN :
          conversation =
             [dragCounter |-> 0, isDragOver |-> FALSE, hasOpenModal |-> modal,
              hasOpenPanel |-> panel, before |-> 0, calls |-> <<>>,
              event |-> [kind |-> "none", present |-> FALSE, types |-> <<>>,
                         files |-> <<>>, items |-> <<>>]]
    /\ search = <<>>
    /\ detail = <<>>
    /\ pc = "conversation"
    /\ installedPacks = <<>>
    /\ installingId = Null
    /\ seenInstallingId = Null
    /\ selectedCollection = Null
    /\ collectionMedias = <<>>
    /\ tasks = {}
    /\ uploads = <<>>
    /\ request = <<>>
    /\ installLog = <<>>
    /\ conversion = <<>>
    /\ tagged = <<>>
    /\ classified = <<>>
    /\ pipelineIdle
    /\ renderIdle
    /\ memoIdle

onDragEnter ==
    /\ conversation.dragCounter < MaxDrag
    /\ \E present \in BOOLEAN, types \in SeqsUpTo({"Files", "text/plain"}, 2) :
          LET dataTransfer == [present |-> present,
                               types |-> IF present THEN types ELSE <<>>]
          IN  conversation' =
                 [conversation EXCEPT
                    !.dragCounter = IF carriesFiles(dataTransfer)
                                    THEN @ + 1 ELSE @,
                    !.isDragOver = IF carriesFiles(dataTransfer)
                                   THEN TRUE ELSE @,
                    !.before = conversation.dragCounter,
                    !.calls = <<>>,
                    !.event = [kind |-> "dragenter", present |-> present,
                               types |-> dataTransfer.types, files |-> <<>>,
                               items |-> <<>>]]
    /\ UNCHANGED <<search, detail, pc, installedPacks, installingId,
                   seenInstallingId, selectedCollection, collectionMedias,
                   tasks, uploads, request, installLog, conversion, tagged,
                   classified>>
    /\ UNCHANGED <<pipelineVars, renderVars, memoVars>>

onDragOver ==
    /\ conversation' =
          [conversation EXCEPT
             !.before = conversation.dragCounter,
             !.calls = <<>>,
             !.event = [kind |-> "dragover", present |-> FALSE,
                        types |-> <<>>, files |-> <<>>, items |-> <<>>]]
    /\ UNCHANGED <<search, detail, pc, installedPacks, installingId,
                   seenInstallingId, selectedCollection, collectionMedias,
                   tasks, uploads, request, installLog, conversion, tagged,
                   classified>>
    /\ UNCHANGED <<pipelineVars, renderVars, memoVars>>

onDragLeave ==
    /\ conversation' =
          [conversation EXCEPT
             !.dragCounter = IF @ - 1 <= 0 THEN 0 ELSE @ - 1,
             !.isDragOver = IF conversation.dragCounter - 1 <= 0
                            THEN FALSE ELSE @,
             !.before = conversation.dragCounter,
             !.calls = <<>>,
             !.event = [kind |-> "dragleave", present |-> FALSE,
                        types |-> <<>>, files |-> <<>>, items |-> <<>>]]
    /\ UNCHANGED <<search, detail, pc, installedPacks, installingId,
                   seenInstallingId, selectedCollection, collectionMedias,
                   tasks, uploads, request, installLog, conversion, tagged,
                   classified>>
    /\ UNCHANGED <<pipelineVars, renderVars, memoVars>>

\* onDrop: the dropped files are the files 1..n of the transfer
onDrop ==
    /\ \E present \in BOOLEAN, types \in SeqsUpTo({"Files", "text/plain"}, 2),
          n \in 0..MaxFiles :
          LET dataTransfer == [present |-> present,
                               types |-> IF present THEN types ELSE <<>>,
                               files |-> IF present THEN [i \in 1..n |-> i]
                                         ELSE <<>>]
          IN  conversation' =
                 [conversation EXCEPT
                    !.dragCounter = 0,
                    !.isDragOver = FALSE,
                    !.before = conversation.dragCounter,
                    !.calls =
                       IF ~dataTransfer.present THEN <<>>
                       ELSE IF dataTransfer.types = <<>>
                               \/ dataTransfer.types[1] # "Files" THEN <<>>
                       ELSE <<[files |-> dataTransfer.files, flags |-> Null]>>,
                    !.event = [kind |-> "drop", present |-> present,
                               types |-> dataTransfer.types,
                               files |-> dataTransfer.files, items |-> <<>>]]
    /\ UNCHANGED <<search, detail, pc, installedPacks, installingId,
                   seenInstallingId, selectedCollection, collectionMedias,
                   tasks, uploads, request, installLog, conversion, tagged,
                   classified>>
    /\ UNCHANGED <<pipelineVars, renderVars, memoVars>>

\* onPaste: item i of the clipboard holds the file with id i; an item of
\* the input with no file name is one that getAsFile() yields null for
onPaste ==
    /\ \E present \in BOOLEAN,
          pasted \in SeqsUpTo(
             {[kind |-> "file", type |-> <<"image", "png">>, name |-> "image.png"],
              [kind |-> "file", type |-> <<"image", "png">>, name |-> "a"],
              [kind |-> "file", type |-> <<"image", "png">>, name |-> ""],
              [kind |-> "file", type |-> <<"video", "mp4">>, name |-> "a"],
              [kind |-> "file", type |-> <<"application", "pdf">>, name |-> "a"],
              [kind |-> "file", type |-> <<"application", "pdf">>, name |-> ""],
              [kind |-> "string", type |-> <<"text", "plain">>, name |-> ""]},
             MaxItems) :
          LET items == IF present
                       THEN [i \in DOMAIN pasted |->
                               [kind |-> pasted[i].kind, type |-> pasted[i].type,
                                id |-> i,
                                file |-> IF pasted[i].name = "" THEN <<>>
                                         ELSE <<[id |-> i,
                                                 type |-> pasted[i].type,
                                                 name |-> pasted[i].name]>>]]
                       ELSE <<>>
              fileItems == SelectSeq(items, LAMBDA item : item.kind = "file")
              files == flatten([i \in DOMAIN items |-> getAsFile(items[i])])
              firstAttachment == IF fileItems # <<>>
                                 THEN getAsFile(fileItems[1]) ELSE <<>>
          IN  conversation' =
                 [conversation EXCEPT
                    !.before = conversation.dragCounter,
                    !.calls =
                       IF conversation.hasOpenModal \/ conversation.hasOpenPanel
                       THEN <<>>
                       ELSE IF ~present THEN <<>>
                       ELSE IF Len(fileItems) = 0 THEN <<>>
                       ELSE IF allVisual(fileItems)
                       THEN <<[files |-> files, flags |-> Null]>>
                       ELSE IF firstAttachment # <<>>
                       THEN <<[files |-> firstAttachment, flags |-> Null]>>
                       ELSE <<>>,
                    !.event = [kind |-> "paste", present |-> present,
                               types |-> <<>>, files |-> <<>>,
                               items |-> items]]
    /\ UNCHANGED <<search, detail, pc, installedPacks, installingId,
                   seenInstallingId, selectedCollection, collectionMedias,
                   tasks, uploads, request, installLog, conversion, tagged,
                   classified>>
    /\ UNCHANGED <<pipelineVars, renderVars, memoVars>>

SpecDrag == InitDrag /\ [][onDragEnter \/ onDragOver \/ onDragLeave \/ onDrop \/ onPaste]_vars

\* C34: after any sequence of drag-enter, drag-over, drag-leave and drop
\* events the drag counter is >= 0 and the overlay is shown exactly when the
\* counter is > 0; only a drag-enter carrying 'Files' increments the counter,
\* every drag-leave decrements it (clamped at 0), and a drop resets the
\* counter to 0 and hides the overlay whatever is dropped.
C34_DragOverlay ==
    /\ conversation.dragCounter >= 0
    /\ conversation.isDragOver <=> conversation.dragCounter > 0
    /\ conversation.event.kind = "dragenter" =>
          conversation.dragCounter =
             IF \E i \in DOMAIN conversation.event.types :
                   conversation.event.types[i] = "Files"
             THEN conversation.before + 1 ELSE conversation.before
    /\ conversation.event.kind = "dragover" =>
          conversation.dragCounter = conversation.before
    /\ conversation.event.kind = "dragleave" =>
          conversation.dragCounter =
             IF conversation.before >= 1 THEN conversation.before - 1 ELSE 0
    /\ conversation.event.kind = "drop" =>
          conversation.dragCounter = 0 /\ ~conversation.isDragOver

\* a drag-leave has left the counter at 1 and the overlay shown
C34_Witness ==
    /\ conversation.event.kind = "dragleave"
    /\ conversation.before = 2
    /\ conversation.dragCounter = 1
    /\ conversation.isDragOver

\* the ids of the clipboard's file items, in item order
pastedFileIds ==
    LET fileItems == SelectSeq(conversation.event.items,
                               LAMBDA item : item.kind = "file")
    IN  [i \in DOMAIN fileItems |-> fileItems[i].id]

\* the ids of the clipboard's items that yield a file, in item order
readableIds ==
    LET readable == SelectSeq(conversation.event.items,
                              LAMBDA item : item.file # <<>>)
    IN  [i \in DOMAIN readable |-> readable[i].id]

\* every file item of the clipboard is an image or a video
pastedAllVisual ==
    \A i \in DOMAIN conversation.event.items :
       conversation.event.items[i].kind = "file" =>
          conversation.event.items[i].type[1] \in {"image", "video"}

\* the ids of the files handed to processAttachments by call k
forwardedIds(k) ==
    [i \in DOMAIN conversation.calls[k].files |->
        conversation.calls[k].files[i].id]

\* what C35 says of a drop: processAttachments is called at most once, with
\* all dropped files and flags null, and only when the first transfer type
\* is 'Files'
dropForwarded ==
    conversation.event.kind = "drop" =>
       /\ Len(conversation.calls) <= 1
       /\ conversation.calls # <<>> <=>
             /\ conversation.event.present
             /\ conversation.event.types # <<>>
             /\ conversation.event.types[1] = "Files"
       /\ \A k \in DOMAIN conversation.calls :
             /\ conversation.calls[k].files = conversation.event.files
             /\ conversation.calls[k].flags = Null

\* C35 as stated: a drop is forwarded as said above; a paste is ignored
\* while a modal or panel is open or when it has no file item, forwards
\* every file when all file items are images or videos, and otherwise
\* forwards exactly the first file item's file, always in a single
\* processAttachments call.
C35_DropAndPaste ==
    /\ dropForwarded
    /\ conversation.event.kind = "paste" =>
          IF \/ conversation.hasOpenModal
             \/ conversation.hasOpenPanel
             \/ pastedFileIds = <<>>
          THEN conversation.calls = <<>>
          ELSE /\ Len(conversation.calls) = 1
               /\ conversation.calls[1].flags = Null
               /\ forwardedIds(1) = IF pastedAllVisual THEN pastedFileIds
                                    ELSE <<pastedFileIds[1]>>

\* C35, amended: a drop is forwarded as said above; a paste is ignored while
\* a modal or panel is open or when it has no file item; when all file items
\* are images or videos it forwards, in one call, every file that the items
\* yield (possibly none); otherwise it forwards, in one call, the file of
\* the first file item, and makes no call when that item yields no file.
C35_PasteForwardsReadable ==
    /\ dropForwarded
    /\ conversation.event.kind = "paste" =>
          IF \/ conversation.hasOpenModal
             \/ conversation.hasOpenPanel
             \/ pastedFileIds = <<>>
          THEN conversation.calls = <<>>
          ELSE IF pastedAllVisual
          THEN /\ Len(conversation.calls) = 1
               /\ conversation.calls[1].flags = Null
               /\ forwardedIds(1) = readableIds
          ELSE IF readableIds # <<>> /\ readableIds[1] = pastedFileIds[1]
          THEN /\ Len(conversation.calls) = 1
               /\ conversation.calls[1].flags = Null
               /\ forwardedIds(1) = <<pastedFileIds[1]>>
          ELSE conversation.calls = <<>>

\* a paste of a document that yields no file and of an image that does has
\* forwarded nothing
C35_Witness ==
    /\ conversation.event.kind = "paste"
    /\ ~conversation.hasOpenModal
    /\ ~conversation.hasOpenPanel
    /\ Len(pastedFileIds) = 2
    /\ ~pastedAllVisual
    /\ readableIds = <<pastedFileIds[2]>>
    /\ conversation.calls = <<>>

====
